---- MODULE Spec2Model ----
(***************************************************************************)
(* Recurrent PPO training engine of project_name: the trajectory collector *)
(* of environment_loop.py and the advantage estimator and clipped-loss     *)
(* optimizer of agents/PPO_RNN/PPO_RNN.py.                                  *)
(*                                                                         *)
(* Numbers.  The program computes in floating point; the model computes    *)
(* in exact rational arithmetic.  A number is a pair <<n, d>> in lowest    *)
(* terms with d > 0; <<0, 0>> is NaN.  Arrays are sequences (1-indexed),   *)
(* an array of rank 2 is a sequence of rows, axis 0 first.                 *)
(***************************************************************************)
EXTENDS Integers, Sequences, FiniteSets, TLC

VARIABLES
    pc,            \* position in the driver / in the function under study
    config,        \* the config dictionary entries the engine reads
    train_state,   \* TrainState: [params, step]
    env_state,     \* environment state, one per environment
    last_obs,      \* last observation of the agent, one per environment
    last_done,     \* last done flags of the agent, one per environment
    hstate,        \* recurrent hidden state, one per environment
    key,           \* pseudo-random key carried in the runner state
    traj_batch,    \* Transition named tuple of arrays [time][environment]
    update_steps,  \* number of completed update cycles
    last_val,      \* bootstrap value, one per environment
    advantages,    \* output of _calculate_gae, [time][environment]
    targets,       \* output of _calculate_gae, [time][environment]
    epoch,         \* number of optimizer epochs started in this cycle
    permutation,   \* permutation drawn in the current epoch
    minibatches,   \* minibatches of the current epoch
    mb_idx,        \* next minibatch of the current epoch
    loss_info,     \* total losses of the minibatches of this cycle
    loss_batch,    \* inputs of the loss reductions under study
    loss_out,      \* outputs of the loss reductions under study
    call_args,     \* arguments of the function under study
    call_result,   \* what the function under study returned
    callback_log,  \* the metrics handed to the logging callback, in order
    env_graph_state, \* graph state of the environments, one per environment
    runner_state,  \* the runner state the current update cycle started from
    key_log        \* the keys consumed by a draw or a per-environment split, in order

vars == <<pc, config, train_state, env_state, last_obs, last_done, hstate, key,
          traj_batch, update_steps, last_val, advantages, targets, epoch,
          permutation, minibatches, mb_idx, loss_info, loss_batch, loss_out,
          call_args, call_result, callback_log, env_graph_state, runner_state, key_log>>

(***************************************************************************)
(* Exact arithmetic                                                        *)
(***************************************************************************)
Abs(x) == IF x < 0 THEN -x ELSE x

RECURSIVE GCD(_, _)
GCD(a, b) == IF b = 0 THEN a ELSE GCD(b, a % b)

NaN == <<0, 0>>

IsNaN(q) == q[2] = 0

Rat(n, d) ==
    IF d = 0 THEN NaN
    ELSE LET g == GCD(Abs(n), Abs(d))
             s == IF d < 0 THEN -1 ELSE 1
         IN  <<(s * n) \div g, (s * d) \div g>>

Zero == <<0, 1>>

One == <<1, 1>>

RAdd(a, b) ==
    IF IsNaN(a) \/ IsNaN(b) THEN NaN
    ELSE LET g == GCD(a[2], b[2])
         IN  Rat(a[1] * (b[2] \div g) + b[1] * (a[2] \div g), (a[2] \div g) * b[2])

RNeg(a) == IF IsNaN(a) THEN NaN ELSE <<-a[1], a[2]>>

RSub(a, b) == RAdd(a, RNeg(b))

RLess(a, b) == ~IsNaN(a) /\ ~IsNaN(b) /\ RSub(a, b)[1] < 0

RMul(a, b) ==
    IF IsNaN(a) \/ IsNaN(b) THEN NaN
    ELSE LET g == GCD(Abs(a[1]), b[2])
             h == GCD(Abs(b[1]), a[2])
         IN  Rat((a[1] \div g) * (b[1] \div h), (a[2] \div h) * (b[2] \div g))

\* a / b; the only zero divisor the engine can meet is a zero count under a zero sum
RDiv(a, b) == IF IsNaN(a) \/ IsNaN(b) \/ b[1] = 0 THEN NaN ELSE RMul(a, Rat(b[2], b[1]))

RMin(a, b) == IF IsNaN(a) \/ IsNaN(b) THEN NaN ELSE IF RLess(b, a) THEN b ELSE a

RMax(a, b) == IF IsNaN(a) \/ IsNaN(b) THEN NaN ELSE IF RLess(a, b) THEN b ELSE a

\* 1 - done for a boolean done
OneMinus(done) == IF done THEN Zero ELSE One

(***************************************************************************)
(* Transition named tuple and array helpers                                *)
(***************************************************************************)
TransitionFields == {"global_done", "done", "action", "value", "reward", "log_prob", "obs", "info"}

\* the transition at index t of axis 0, as jax.lax.scan hands it to its body
TimeSlice(tb, t) == [k \in DOMAIN tb |-> tb[k][t]]

ZerosLike(x) == [e \in DOMAIN x |-> Zero]

\* elementwise sum of two arrays of rank 2
ArrAdd2(x, y) == [t \in DOMAIN x |-> [e \in DOMAIN x[t] |-> RAdd(x[t][e], y[t][e])]]

(***************************************************************************)
(* Advantage estimator: PPO_RNNAgent.update, _calculate_gae                *)
(***************************************************************************)
\* mutants of _get_advantages
GetAdvantages_KeepNextValue(gae_and_next_value, transition) ==
    LET gae == gae_and_next_value[1]
        next_value == gae_and_next_value[2]
        done == transition.global_done
        value == transition.value
        reward == transition.reward
        delta == [e \in DOMAIN value |->
                    RSub(RAdd(reward[e], RMul(RMul(config.GAMMA, next_value[e]), OneMinus(done[e]))), value[e])]
        new_gae == [e \in DOMAIN value |->
                    RAdd(delta[e], RMul(RMul(RMul(config.GAMMA, config.GAE_LAMBDA), OneMinus(done[e])), gae[e]))]
    IN  <<<<new_gae, next_value>>, new_gae>>

GetAdvantages_AgentDone(gae_and_next_value, transition) ==
    LET gae == gae_and_next_value[1]
        next_value == gae_and_next_value[2]
        done == transition.done
        value == transition.value
        reward == transition.reward
        delta == [e \in DOMAIN value |->
                    RSub(RAdd(reward[e], RMul(RMul(config.GAMMA, next_value[e]), OneMinus(done[e]))), value[e])]
        new_gae == [e \in DOMAIN value |->
                    RAdd(delta[e], RMul(RMul(RMul(config.GAMMA, config.GAE_LAMBDA), OneMinus(done[e])), gae[e]))]
    IN  <<<<new_gae, value>>, new_gae>>

GetAdvantages_GaeNotMasked(gae_and_next_value, transition) ==
    LET gae == gae_and_next_value[1]
        next_value == gae_and_next_value[2]
        done == transition.global_done
        value == transition.value
        reward == transition.reward
        delta == [e \in DOMAIN value |->
                    RSub(RAdd(reward[e], RMul(RMul(config.GAMMA, next_value[e]), OneMinus(done[e]))), value[e])]
        new_gae == [e \in DOMAIN value |->
                    RAdd(delta[e], RMul(RMul(config.GAMMA, config.GAE_LAMBDA), gae[e]))]
    IN  <<<<new_gae, value>>, new_gae>>

GetAdvantages_NoGammaOnGae(gae_and_next_value, transition) ==
    LET gae == gae_and_next_value[1]
        next_value == gae_and_next_value[2]
        done == transition.global_done
        value == transition.value
        reward == transition.reward
        delta == [e \in DOMAIN value |->
                    RSub(RAdd(reward[e], RMul(RMul(config.GAMMA, next_value[e]), OneMinus(done[e]))), value[e])]
        new_gae == [e \in DOMAIN value |->
                    RAdd(delta[e], RMul(RMul(config.GAE_LAMBDA, OneMinus(done[e])), gae[e]))]
    IN  <<<<new_gae, value>>, new_gae>>

GetAdvantages_NoLambdaOnGae(gae_and_next_value, transition) ==
    LET gae == gae_and_next_value[1]
        next_value == gae_and_next_value[2]
        done == transition.global_done
        value == transition.value
        reward == transition.reward
        delta == [e \in DOMAIN value |->
                    RSub(RAdd(reward[e], RMul(RMul(config.GAMMA, next_value[e]), OneMinus(done[e]))), value[e])]
        new_gae == [e \in DOMAIN value |->
                    RAdd(delta[e], RMul(RMul(config.GAMMA, OneMinus(done[e])), gae[e]))]
    IN  <<<<new_gae, value>>, new_gae>>

\* _get_advantages: one step of the scan; returns <<new carry, output>>
GetAdvantages(gae_and_next_value, transition) ==
    LET gae == gae_and_next_value[1]
        next_value == gae_and_next_value[2]
        done == transition.global_done
        value == transition.value
        reward == transition.reward
        delta == [e \in DOMAIN value |->
                    RSub(RAdd(reward[e], RMul(RMul(config.GAMMA, next_value[e]), OneMinus(done[e]))), value[e])]
        new_gae == [e \in DOMAIN value |->
                    RAdd(delta[e], RMul(RMul(RMul(config.GAMMA, config.GAE_LAMBDA), OneMinus(done[e])), gae[e]))]
    IN  <<<<new_gae, value>>, new_gae>>

\* jax.lax.scan(_get_advantages, init, traj_batch, reverse=True) over the
\* transitions t, t-1, ..., 1: <<final carry, outputs in the order of the inputs>>
RECURSIVE GaeScan(_, _, _)
GaeScan(carry, tb, t) ==
    IF t = 0 THEN <<carry, <<>>>>
    ELSE LET r == GetAdvantages(carry, TimeSlice(tb, t))
             rest == GaeScan(r[1], tb, t - 1)
         IN  <<rest[1], Append(rest[2], r[2])>>

\* _calculate_gae: <<advantages, targets>>
CalculateGae(tb, lv) ==
    LET adv == GaeScan(<<ZerosLike(lv), lv>>, tb, Len(tb.reward))[2]
    IN  <<adv, ArrAdd2(adv, tb.value)>>

(***************************************************************************)
(* The advantage estimator on bounded inputs                               *)
(***************************************************************************)
GaeMaxSteps == 2

Half == <<1, 2>>

RewardSet == {Zero, One}

ValueSet == {Zero, One}

\* <<agent done, episode done>>: the episode is done only if the agent is
DoneFlags == {<<FALSE, FALSE>>, <<TRUE, FALSE>>, <<TRUE, TRUE>>}

GaeCell == [reward : RewardSet, value : ValueSet, flags : DoneFlags]

GaeConfigs == {[GAMMA |-> g, GAE_LAMBDA |-> l, NUM_MINIBATCHES |-> 1, NUM_STEPS |-> GaeMaxSteps] :
                  <<g, l>> \in {<<Zero, Half>>, <<Half, Zero>>, <<Half, Half>>}}

\* a rollout of one environment whose transitions hold the given cells
GaeTraj(cells) ==
    [global_done |-> [t \in DOMAIN cells |-> <<cells[t].flags[2]>>],
     done        |-> [t \in DOMAIN cells |-> <<cells[t].flags[1]>>],
     action      |-> [t \in DOMAIN cells |-> <<0>>],
     value       |-> [t \in DOMAIN cells |-> <<cells[t].value>>],
     reward      |-> [t \in DOMAIN cells |-> <<cells[t].reward>>],
     log_prob    |-> [t \in DOMAIN cells |-> <<Half>>],
     obs         |-> [t \in DOMAIN cells |-> <<0>>],
     info        |-> [t \in DOMAIN cells |-> <<0>>]]

\* the rollout of length 4 with rewards 1, done only at the last step
ScenarioRewards == <<One, One, One, One>>

ScenarioCells(values) ==
    [t \in DOMAIN ScenarioRewards |->
        [reward |-> ScenarioRewards[t], value |-> values[t],
         flags |-> IF t = Len(ScenarioRewards) THEN <<TRUE, TRUE>> ELSE <<FALSE, FALSE>>]]

GaeInputs ==
    UNION {{GaeTraj(cells) : cells \in [1..T -> GaeCell]} : T \in 1..GaeMaxSteps}
    \cup {GaeTraj(ScenarioCells(values)) : values \in [DOMAIN ScenarioRewards -> ValueSet]}

NoTraj == [k \in TransitionFields |-> <<>>]

IdleRunner ==
    /\ train_state = [params |-> 0, step |-> 0]
    /\ env_state = <<>>
    /\ last_obs = <<>>
    /\ last_done = <<>>
    /\ hstate = <<>>
    /\ key = <<>>
    /\ update_steps = 0
    /\ env_graph_state = <<>>
    /\ runner_state = <<>>
    /\ key_log = <<>>

IdleEpoch ==
    /\ epoch = 0
    /\ permutation = <<>>
    /\ minibatches = <<>>
    /\ mb_idx = 0
    /\ loss_info = <<>>

IdleLoss ==
    /\ loss_batch = <<>>
    /\ loss_out = <<>>

IdleCall ==
    /\ call_args = <<>>
    /\ call_result = <<>>
    /\ callback_log = <<>>

InitGae ==
    /\ pc = "gae_in"
    /\ config \in GaeConfigs
    /\ traj_batch \in GaeInputs
    /\ last_val \in {<<v>> : v \in ValueSet}
    /\ advantages = <<>>
    /\ targets = <<>>
    /\ IdleRunner
    /\ IdleEpoch
    /\ IdleLoss
    /\ IdleCall

\* advantages, targets = _calculate_gae(traj_batch, last_val)
GaeApply ==
    /\ pc = "gae_in"
    /\ advantages' = CalculateGae(traj_batch, last_val)[1]
    /\ targets' = CalculateGae(traj_batch, last_val)[2]
    /\ pc' = "gae_out"
    /\ UNCHANGED <<config, train_state, env_state, last_obs, last_done, hstate, key,
                   traj_batch, update_steps, last_val, epoch, permutation,
                   minibatches, mb_idx, loss_info, loss_batch, loss_out,
                   call_args, call_result, callback_log,
                   env_graph_state, runner_state, key_log>>

NextGae == GaeApply

SpecGae == InitGae /\ [][NextGae]_vars

(***************************************************************************)
(* Loss function: PPO_RNNAgent.update, _loss_fn                            *)
(*                                                                         *)
(* A log-probability is held as the probability it is the logarithm of,    *)
(* so that exp(log_prob - old_log_prob) is a quotient of two numbers.      *)
(***************************************************************************)
\* config["CLIP_EPS"], config["VF_COEF"], config["ENT_COEF"]
CLIP_EPS == Rat(1, 5)

VF_COEF == Rat(1, 2)

ENT_COEF == Rat(1, 100)

\* the 1e-8 added to the standard deviation: a positive constant, small
\* against the advantages of the model (10^8 does not fit its integers twice)
STD_EPS == Rat(1, 100)

RSquare(a) == RMul(a, a)

\* x.clip(lo, hi)
RClip(x, lo, hi) == RMin(RMax(x, lo), hi)

\* exp(a - b) of two log-probabilities
ExpDiff(a, b) == RDiv(a, b)

RECURSIVE ISqrtFrom(_, _)
ISqrtFrom(k, r) == IF (r + 1) * (r + 1) > k THEN r ELSE ISqrtFrom(k, r + 1)

\* square root to a precision of 1/4, rounded down, never to 0 for a positive number
RSqrt(q) ==
    IF IsNaN(q) THEN NaN
    ELSE IF q[1] <= 0 THEN Zero
    ELSE LET r == ISqrtFrom((q[1] * 16) \div q[2], 0)
         IN  Rat(IF r = 0 THEN 1 ELSE r, 4)

\* the elements of an array of rank 2 in row-major order
RECURSIVE Flatten2(_)
Flatten2(x) == IF x = <<>> THEN <<>> ELSE Head(x) \o Flatten2(Tail(x))

RECURSIVE RSum(_)
RSum(xs) == IF xs = <<>> THEN Zero ELSE RAdd(Head(xs), RSum(Tail(xs)))

\* x.mean()
Mean(xs) == RDiv(RSum(xs), <<Len(xs), 1>>)

\* x.std()
Std(xs) == RSqrt(Mean([i \in DOMAIN xs |-> RSquare(RSub(xs[i], Mean(xs)))]))

\* mutant of x.mean(where=mask): the mask forgotten
MeanWhere_Unmasked(xs, mask) == Mean(xs)

\* x.mean(where=mask): the sum of the selected elements over their number
MeanWhere(xs, mask) ==
    RDiv(RSum([i \in DOMAIN xs |-> IF mask[i] THEN xs[i] ELSE Zero]),
         <<Cardinality({i \in DOMAIN xs : mask[i]}), 1>>)

\* the standardization without the stabilizing term
Standardize_NoEps(g) == [i \in DOMAIN g |-> RDiv(RSub(g[i], Mean(g)), Std(g))]

\* gae = (gae - gae.mean()) / (gae.std() + 1e-8)
Standardize(g) == [i \in DOMAIN g |-> RDiv(RSub(g[i], Mean(g)), RAdd(Std(g), STD_EPS))]

\* _loss_fn after the network has been re-run: log_prob, value and entropy
\* are the recomputed outputs, tb the minibatch of transitions
LossTerms(log_prob, value, entropy, tb, gae_in, targets_in) ==
    LET lp == Flatten2(log_prob)
        v == Flatten2(value)
        ent == Flatten2(entropy)
        old_v == Flatten2(tb.value)
        old_lp == Flatten2(tb.log_prob)
        done == Flatten2(tb.done)
        g == Flatten2(gae_in)
        tg == Flatten2(targets_in)
        I == DOMAIN v
        mask == [i \in I |-> ~done[i]]
        \* CALCULATE VALUE LOSS
        value_pred_clipped == [i \in I |-> RAdd(old_v[i], RClip(RSub(v[i], old_v[i]), RNeg(CLIP_EPS), CLIP_EPS))]
        value_losses == [i \in I |-> RSquare(RSub(v[i], tg[i]))]
        value_losses_clipped == [i \in I |-> RSquare(RSub(value_pred_clipped[i], tg[i]))]
        value_loss == RMul(Rat(1, 2), MeanWhere([i \in I |-> RMax(value_losses[i], value_losses_clipped[i])], mask))
        \* CALCULATE ACTOR LOSS
        ratio == [i \in I |-> ExpDiff(lp[i], old_lp[i])]
        gae == Standardize(g)
        loss_actor1 == [i \in I |-> RMul(ratio[i], gae[i])]
        loss_actor2 == [i \in I |-> RMul(RClip(ratio[i], RSub(One, CLIP_EPS), RAdd(One, CLIP_EPS)), gae[i])]
        loss_actor == MeanWhere([i \in I |-> RNeg(RMin(loss_actor1[i], loss_actor2[i]))], mask)
        entropy_mean == MeanWhere(ent, mask)
        total_loss == RSub(RAdd(loss_actor, RMul(VF_COEF, value_loss)), RMul(ENT_COEF, entropy_mean))
    IN  [total_loss |-> total_loss, value_loss |-> value_loss,
         loss_actor |-> loss_actor, entropy |-> entropy_mean]

(***************************************************************************)
(* The loss reductions on bounded inputs                                   *)
(***************************************************************************)
LossMaxCells == 2

\* entropy of the two-action distribution that gives its action probability p:
\* 2p(1-p), a rational stand-in that is 0 for a certain action and largest at 1/2
Entropy(p) == RMul(Rat(2, 1), RMul(p, RSub(One, p)))

\* what one (timestep, environment) feeds the loss
LossCell ==
    [done : BOOLEAN,
     gae : {Zero, Rat(3, 1)},
     vals : {[value |-> Zero, old_value |-> Zero, target |-> One],
             [value |-> One, old_value |-> Zero, target |-> Zero]},
     probs : {[log_prob |-> Rat(1, 2), old_log_prob |-> Rat(1, 2)],
              [log_prob |-> Rat(1, 4), old_log_prob |-> Rat(1, 2)]}]

\* the loss terms of a minibatch holding the given cells, one per timestep
LossOfCells(cells) ==
    LossTerms([i \in DOMAIN cells |-> <<cells[i].probs.log_prob>>],
              [i \in DOMAIN cells |-> <<cells[i].vals.value>>],
              [i \in DOMAIN cells |-> <<Entropy(cells[i].probs.log_prob)>>],
              [done     |-> [i \in DOMAIN cells |-> <<cells[i].done>>],
               value    |-> [i \in DOMAIN cells |-> <<cells[i].vals.old_value>>],
               log_prob |-> [i \in DOMAIN cells |-> <<cells[i].probs.old_log_prob>>]],
              [i \in DOMAIN cells |-> <<cells[i].gae>>],
              [i \in DOMAIN cells |-> <<cells[i].vals.target>>])

InitLoss ==
    /\ pc = "loss_in"
    /\ loss_batch \in UNION {[1..N -> LossCell] : N \in 1..LossMaxCells}
    /\ loss_out = <<>>
    /\ config = [GAMMA |-> Half, GAE_LAMBDA |-> Half, NUM_MINIBATCHES |-> 1, NUM_STEPS |-> 1]
    /\ traj_batch = NoTraj
    /\ last_val = <<>>
    /\ advantages = <<>>
    /\ targets = <<>>
    /\ IdleRunner
    /\ IdleEpoch
    /\ IdleCall

\* total_loss, (value_loss, loss_actor, entropy) = _loss_fn(...)
LossApply ==
    /\ pc = "loss_in"
    /\ loss_out' = LossOfCells(loss_batch)
    /\ pc' = "loss_out"
    /\ UNCHANGED <<config, train_state, env_state, last_obs, last_done, hstate, key,
                   traj_batch, update_steps, last_val, advantages, targets, epoch,
                   permutation, minibatches, mb_idx, loss_info, loss_batch,
                   call_args, call_result, callback_log,
                   env_graph_state, runner_state, key_log>>

NextLoss == LossApply

SpecLoss == InitLoss /\ [][NextLoss]_vars

(***************************************************************************)
(* Batch marshalling (utils.py): per-agent dictionaries to and from one    *)
(* stacked array                                                           *)
(***************************************************************************)
\* env.num_agents
NUM_AGENTS == 2

\* env.agents, the agent ordering the collector passes
EnvAgents == <<"agent_0", "agent_1">>

\* jnp.reshape(flat, (rows, -1)) of a flat array
Reshape2(flat, rows) ==
    [i \in 1..rows |-> [j \in 1..(Len(flat) \div rows) |->
        flat[(i - 1) * (Len(flat) \div rows) + j]]]

\* batchify(x, agent_list, num_agents, num_envs): the agents' arrays stacked in
\* the order of agent_list, as [agent][environment][feature]
Batchify(x, agent_list, num_agents, num_envs) ==
    [i \in 1..num_agents |-> Reshape2(Flatten2(x[agent_list[i]]), num_envs)]

\* unbatchify(x, agent_list, num_agents, num_devices): each agent's slice of
\* the stacked array, as [device][environment of the device]
Unbatchify(x, agent_list, num_agents, num_devices) ==
    [a \in {agent_list[i] : i \in 1..num_agents} |->
        Reshape2(Flatten2(x[CHOOSE i \in 1..num_agents : agent_list[i] = a]), num_devices)]

\* the round trip with the agent list of unbatchify in another order
MarshalRoundTrip_OtherOrder(x, num_envs, num_devices) ==
    Unbatchify(Batchify(x, EnvAgents, NUM_AGENTS, num_envs),
               <<EnvAgents[2], EnvAgents[1]>>, NUM_AGENTS, num_devices)

\* the two marshalling calls of the collector composed: same agent list,
\* NUM_ENVS in one direction and NUM_DEVICES in the other
MarshalRoundTrip(x, num_envs, num_devices) ==
    Unbatchify(Batchify(x, EnvAgents, NUM_AGENTS, num_envs),
               EnvAgents, NUM_AGENTS, num_devices)

MarshalMaxEnvs == 2

\* per-agent structures as the sharded environments return them:
\* [device][environment of the device] for each agent
MarshalInputs ==
    UNION {{[x |-> x, num_envs |-> d * n, num_devices |-> d] :
                x \in [{EnvAgents[i] : i \in 1..NUM_AGENTS} -> [1..d -> [1..n -> {0, 1}]]]} :
           d \in {1, 2}, n \in 1..MarshalMaxEnvs}

InitMarshal ==
    /\ pc = "marshal_in"
    /\ call_args \in MarshalInputs
    /\ call_result = <<>>
    /\ callback_log = <<>>
    /\ config = [GAMMA |-> Half, GAE_LAMBDA |-> Half, NUM_MINIBATCHES |-> 1, NUM_STEPS |-> 1]
    /\ traj_batch = NoTraj
    /\ last_val = <<>>
    /\ advantages = <<>>
    /\ targets = <<>>
    /\ IdleRunner
    /\ IdleEpoch
    /\ IdleLoss

MarshalApply ==
    /\ pc = "marshal_in"
    /\ call_result' = MarshalRoundTrip(call_args.x, call_args.num_envs, call_args.num_devices)
    /\ pc' = "marshal_out"
    /\ UNCHANGED <<config, train_state, env_state, last_obs, last_done, hstate, key,
                   traj_batch, update_steps, last_val, advantages, targets, epoch,
                   permutation, minibatches, mb_idx, loss_info, loss_batch, loss_out,
                   call_args, callback_log,
                   env_graph_state, runner_state, key_log>>

NextMarshal == MarshalApply

SpecMarshal == InitMarshal /\ [][NextMarshal]_vars

(***************************************************************************)
(* Reward-function selection of the environments (envs/AYS_JAX.py and      *)
(* src/envs/AYS/AYS_Environment_MultiAgent.py).  The reward_type argument  *)
(* is a Python value: a string, None, or a list; [kind, val] holds it.     *)
(***************************************************************************)
\* the reward functions that get_reward_function of each class dispatches to
SupportedSelectors ==
    [AYS_JAX        |-> {"PB", "IPB", "max_Y", "max_E", "max_A"},
     AYS_MultiAgent |-> {"final_state", "ren_knowledge", "desirable_region", "PB", "PB_new",
                         "PB_ext", "survive", "survive_cost", "policy_cost", "simple"}]

\* the characters of the strings the model passes
PyChars ==
    [PB      |-> <<"P", "B">>,
     IPB     |-> <<"I", "P", "B">>,
     max_Y   |-> <<"m", "a", "x", "_", "Y">>,
     max_E   |-> <<"m", "a", "x", "_", "E">>,
     max_A   |-> <<"m", "a", "x", "_", "A">>,
     survive |-> <<"s", "u", "r", "v", "i", "v", "e">>,
     simple  |-> <<"s", "i", "m", "p", "l", "e">>,
     PB_ext  |-> <<"P", "B", "_", "e", "x", "t">>,
     foo     |-> <<"f", "o", "o">>]

\* None and a list, where they stand as one item of a list
PyNone == "<None>"

PyList == "<list>"

\* v[i] for the Python value v and the 0-based index i: the item, or the
\* exception raised
PyIndex(v, i) ==
    IF v.kind = "none" THEN [raised |-> "TypeError"]
    ELSE LET items == IF v.kind = "str" THEN PyChars[v.val] ELSE v.val
         IN  IF i + 1 \in DOMAIN items THEN [item |-> items[i + 1]]
             ELSE [raised |-> "IndexError"]

\* self.reward_type as __init__ sets it
RewardTypeOf(env, reward_type) ==
    IF env = "AYS_JAX" THEN reward_type
    ELSE [kind |-> "list",
          val  |-> [a \in 1..NUM_AGENTS |->
                       IF reward_type.kind = "none" THEN PyNone
                       ELSE IF reward_type.kind = "list" THEN PyList
                       ELSE reward_type.val]]

\* the branch of the dispatch taken for one agent: the reward function run,
\* or how the process ends
RewardBranch(env, self_reward_type, agent) ==
    LET idx == PyIndex(self_reward_type, agent)
    IN  IF "raised" \in DOMAIN idx THEN [status |-> "raised", detail |-> idx.raised]
        ELSE IF idx.item \in SupportedSelectors[env] THEN [status |-> "computed", detail |-> idx.item]
        ELSE IF idx.item = PyNone THEN [status |-> "exit", detail |-> 1]
        ELSE IF idx.item = PyList THEN [status |-> "raised", detail |-> "TypeError"]
        ELSE IF env = "AYS_JAX" THEN [status |-> "raised", detail |-> "AttributeError"]
        ELSE [status |-> "exit", detail |-> 1]

\* the loop over the agents from agent on, with the reward functions run so far
RECURSIVE RewardLoop(_, _, _, _)
RewardLoop(env, self_reward_type, agent, computed) ==
    IF agent = NUM_AGENTS THEN [status |-> "returned", computed |-> computed]
    ELSE LET b == RewardBranch(env, self_reward_type, agent)
         IN  IF b.status = "computed"
             THEN RewardLoop(env, self_reward_type, agent + 1, Append(computed, b.detail))
             ELSE [status |-> b.status, detail |-> b.detail, computed |-> computed]

\* get_reward_function of an environment constructed with reward_type
GetRewardFunction(env, reward_type) == RewardLoop(env, RewardTypeOf(env, reward_type), 0, <<>>)

RewardSelectorNames == {"PB", "IPB", "max_Y", "max_E", "max_A", "survive", "simple", "PB_ext", "foo"}

RewardTypeArgs ==
    {[kind |-> "str", val |-> n] : n \in RewardSelectorNames}
    \cup {[kind |-> "none", val |-> <<>>]}
    \cup {[kind |-> "list", val |-> l] :
            l \in UNION {[1..n -> {"PB", "IPB", "survive", "foo", PyNone}] : n \in 1..NUM_AGENTS}}

InitReward ==
    /\ pc = "reward_in"
    /\ call_args \in [env : {"AYS_JAX", "AYS_MultiAgent"}, reward_type : RewardTypeArgs]
    /\ call_result = <<>>
    /\ callback_log = <<>>
    /\ config = [GAMMA |-> Half, GAE_LAMBDA |-> Half, NUM_MINIBATCHES |-> 1, NUM_STEPS |-> 1]
    /\ traj_batch = NoTraj
    /\ last_val = <<>>
    /\ advantages = <<>>
    /\ targets = <<>>
    /\ IdleRunner
    /\ IdleEpoch
    /\ IdleLoss

\* env = AYS_Environment(reward_type=...); env.get_reward_function()
RewardApply ==
    /\ pc = "reward_in"
    /\ call_result' = GetRewardFunction(call_args.env, call_args.reward_type)
    /\ pc' = "reward_out"
    /\ UNCHANGED <<config, train_state, env_state, last_obs, last_done, hstate, key,
                   traj_batch, update_steps, last_val, advantages, targets, epoch,
                   permutation, minibatches, mb_idx, loss_info, loss_batch, loss_out,
                   call_args, callback_log,
                   env_graph_state, runner_state, key_log>>

NextReward == RewardApply

SpecReward == InitReward /\ [][NextReward]_vars

(***************************************************************************)
(* Configuration of the training run                                       *)
(***************************************************************************)
\* config["NUM_ENVS"], config["UPDATE_EPOCHS"], config["TOTAL_TIMESTEPS"]
NUM_ENVS == 2

UPDATE_EPOCHS == 2

TOTAL_TIMESTEPS == 8

\* the number of cycles without the division by the number of environments
NUM_UPDATES_PerEnv == TOTAL_TIMESTEPS \div config.NUM_STEPS

\* config["NUM_UPDATES"], for the NUM_STEPS of the run
NUM_UPDATES == (TOTAL_TIMESTEPS \div config.NUM_STEPS) \div NUM_ENVS

Envs == 1..NUM_ENVS

(***************************************************************************)
(* Pseudo-random keys.  A key is the sequence of split indices that leads  *)
(* to it from PRNGKey(seed).                                               *)
(***************************************************************************)
\* jrandom.split(k, n)
Split(k, n) == [i \in 1..n |-> Append(k, i - 1)]

RECURSIVE KeyBits(_)
KeyBits(k) == IF k = <<>> THEN 0 ELSE (k[Len(k)] * Len(k) + 1 + KeyBits(SubSeq(k, 1, Len(k) - 1))) % 4

\* the uniform draw in (0, 1) a key gives
Uniform(k) == Rat(2 * KeyBits(k) + 1, 8)

\* the permutations of 0..n-1 that jrandom.permutation may return, as
\* sequences of the (1-based) positions they select
JPermutation(n) == {f \in [1..n -> 1..n] : \A i, j \in 1..n : f[i] = f[j] => i = j}

(***************************************************************************)
(* Recurrent actor-critic network (agents/PPO_RNN/network.py)              *)
(* The hidden vector of one environment is one value of 0..2, 0 the zero   *)
(* vector; the parameters are identified by the number of optimizer steps  *)
(* that produced them, -1 once they are NaN.  A distribution over the two  *)
(* actions is the probability it gives action 1.                           *)
(***************************************************************************)
Actions == {0, 1}

\* the recurrent cell: new hidden state from parameters, hidden state and observation
Cell(params, h, x) == IF params < 0 \/ h < 0 THEN -1 ELSE (h + x + params + 1) % 3

\* the policy head: probability of action 1
PolicyHead(params, h) == IF params < 0 \/ h < 0 THEN NaN ELSE Rat(1 + ((h + params) % 3), 4)

\* the value head
ValueHead(params, h) == IF params < 0 \/ h < 0 THEN NaN ELSE Rat((h + 2 * params) % 3, 1)

\* one application of the cell to a batch: the hidden state is put to zero
\* where the done flag is set, then the cell is applied
RnnStep(params, hidden, obs, dones) ==
    [b \in DOMAIN hidden |-> Cell(params, IF dones[b] THEN 0 ELSE hidden[b], obs[b])]

\* the hidden states after each row of obs/dones (axis 0 is time), from hidden
RECURSIVE RnnScan(_, _, _, _, _)
RnnScan(params, hidden, obs, dones, n) ==
    IF n = 0 THEN <<>>
    ELSE LET before == RnnScan(params, hidden, obs, dones, n - 1)
             h == IF n = 1 THEN hidden ELSE before[n - 1]
         IN  Append(before, RnnStep(params, h, obs[n], dones[n]))

\* network.apply(params, hidden, (obs, dones)): hidden, pi, value
NetworkApply(params, hidden, obs, dones) ==
    LET hs == RnnScan(params, hidden, obs, dones, Len(obs))
    IN  [hidden |-> IF hs = <<>> THEN hidden ELSE hs[Len(hs)],
         pi     |-> [t \in DOMAIN hs |-> [b \in DOMAIN hs[t] |-> PolicyHead(params, hs[t][b])]],
         value  |-> [t \in DOMAIN hs |-> [b \in DOMAIN hs[t] |-> ValueHead(params, hs[t][b])]]]

\* pi.log_prob(action)
LogProb(pi, action) ==
    [t \in DOMAIN pi |-> [b \in DOMAIN pi[t] |->
        IF action[t][b] = 1 THEN pi[t][b] ELSE RSub(One, pi[t][b])]]

\* pi.entropy()
EntropyOf(pi) == [t \in DOMAIN pi |-> [b \in DOMAIN pi[t] |-> Entropy(pi[t][b])]]

\* pi.sample(seed=k): one action per batch element of a distribution of one row
Sample(k, pi) ==
    [t \in DOMAIN pi |-> [b \in DOMAIN pi[t] |->
        IF RLess(Uniform(Append(k, b)), pi[t][b]) THEN 1 ELSE 0]]

\* PPO_RNNAgent.act: hstate, action, log_prob, value, key
Act(ts, hidden, ac_in, k) ==
    LET out == NetworkApply(ts.params, hidden, ac_in[1], ac_in[2])
        keys == Split(k, 2)
        action == Sample(keys[2], out.pi)
    IN  [hstate |-> out.hidden, action |-> action, log_prob |-> LogProb(out.pi, action),
         value |-> out.value, key |-> keys[1]]

(***************************************************************************)
(* Actor-critic network of agents/PPO/network.py (ActorCriticRNN): two     *)
(* feed-forward stacks on the observation.  An observation is one value of *)
(* 0..1, the parameters are identified as above.                           *)
(***************************************************************************)
\* the actor stack and the categorical distribution on its logits:
\* probability of action 1
ActorMlp(params, obs) == IF params < 0 THEN NaN ELSE Rat(1 + ((obs + params) % 3), 4)

\* the critic stack, squeezed
CriticMlp(params, obs) == IF params < 0 THEN NaN ELSE Rat((obs + 2 * params) % 3, 1)

\* ActorCriticRNN.__call__(hidden, x): hidden, pi, value
ActorCriticRNN(params, hidden, x) ==
    LET obs == x[1]
        dones == x[2]
    IN  [hidden |-> hidden,
         pi     |-> [t \in DOMAIN obs |-> [b \in DOMAIN obs[t] |-> ActorMlp(params, obs[t][b])]],
         value  |-> [t \in DOMAIN obs |-> [b \in DOMAIN obs[t] |-> CriticMlp(params, obs[t][b])]]]

NetMaxBatch == 2

\* hidden vectors, as for the recurrent network: 0 the zero vector
HiddenSet == 0..2

NetInputs ==
    UNION {[params : {0, 1}, hidden : [1..n -> HiddenSet], obs : [1..n -> {0, 1}],
            dones : [1..n -> BOOLEAN]] : n \in 1..NetMaxBatch}

InitNet ==
    /\ pc = "net_in"
    /\ call_args \in NetInputs
    /\ call_result = <<>>
    /\ callback_log = <<>>
    /\ config = [GAMMA |-> Half, GAE_LAMBDA |-> Half, NUM_MINIBATCHES |-> 1, NUM_STEPS |-> 1]
    /\ traj_batch = NoTraj
    /\ last_val = <<>>
    /\ advantages = <<>>
    /\ targets = <<>>
    /\ IdleRunner
    /\ IdleEpoch
    /\ IdleLoss

\* hidden, pi, value = network.apply(params, hidden, (obs[newaxis], dones[newaxis]))
NetApply ==
    /\ pc = "net_in"
    /\ call_result' = ActorCriticRNN(call_args.params, call_args.hidden,
                                     <<<<call_args.obs>>, <<call_args.dones>>>>)
    /\ pc' = "net_out"
    /\ UNCHANGED <<config, train_state, env_state, last_obs, last_done, hstate, key,
                   traj_batch, update_steps, last_val, advantages, targets, epoch,
                   permutation, minibatches, mb_idx, loss_info, loss_batch, loss_out,
                   call_args, callback_log,
                   env_graph_state, runner_state, key_log>>

NextNet == NetApply

SpecNet == InitNet /\ [][NextNet]_vars

(***************************************************************************)
(* Environment collaborator: what one step of one environment may return   *)
(* for the agent (observation, reward, its done flag) and for the episode  *)
(* (the "__all__" flag)                                                    *)
(***************************************************************************)
EnvOutcomes ==
    {[obs |-> 0, reward |-> One,  done |-> FALSE, all |-> FALSE],
     [obs |-> 1, reward |-> Zero, done |-> TRUE,  all |-> FALSE],
     [obs |-> 1, reward |-> One,  done |-> TRUE,  all |-> TRUE]}

(***************************************************************************)
(* Array layout operations of _update_epoch                                *)
(***************************************************************************)
\* jnp.swapaxes(x, 0, 1) of an array of rank 2
SwapAxes01(x) ==
    IF x = <<>> THEN <<>>
    ELSE [j \in DOMAIN x[1] |-> [i \in DOMAIN x |-> x[i][j]]]

\* x.squeeze() of an array of rank 2: the axes of length 1 are dropped
Squeeze(x) ==
    IF Len(x) = 1 /\ Len(x[1]) = 1 THEN x[1][1]
    ELSE IF Len(x) = 1 THEN x[1]
    ELSE IF Len(x[1]) = 1 THEN [i \in DOMAIN x |-> x[i][1]]
    ELSE x

\* jnp.take(x, perm, axis=1)
TakeAxis1(x, perm) == [i \in DOMAIN x |-> [j \in DOMAIN perm |-> x[i][perm[j]]]]

\* jnp.swapaxes(jnp.reshape(x, [x.shape[0], n, -1]), 1, 0): minibatch, axis 0, rest of axis 1
SplitAxis1(x, n) ==
    [m \in 1..n |-> [i \in DOMAIN x |->
        [k \in 1..(Len(x[i]) \div n) |-> x[i][(m - 1) * (Len(x[i]) \div n) + k]]]]

\* jax.tree_map(f, traj_batch) for the three layout steps
TreeSwapAxes01(tb) == [f \in DOMAIN tb |-> SwapAxes01(tb[f])]

TreeTakeAxis1(tb, perm) == [f \in DOMAIN tb |-> TakeAxis1(tb[f], perm)]

TreeSplitAxis1(tb, n) == [m \in 1..n |-> [f \in DOMAIN tb |-> SplitAxis1(tb[f], n)[m]]]

\* the minibatches of one epoch: batch, shuffled_batch, minibatches
Minibatches(init_hstate, tb, adv, tgt, perm, n) ==
    LET batch == [init_hstate |-> <<init_hstate>>,
                  traj_batch  |-> TreeSwapAxes01(tb),
                  advantages  |-> Squeeze(SwapAxes01(adv)),
                  targets     |-> Squeeze(SwapAxes01(tgt))]
        h == SplitAxis1(TakeAxis1(batch.init_hstate, perm), n)
        t == TreeSplitAxis1(TreeTakeAxis1(batch.traj_batch, perm), n)
        a == SplitAxis1(TakeAxis1(batch.advantages, perm), n)
        g == SplitAxis1(TakeAxis1(batch.targets, perm), n)
    IN  [m \in 1..n |-> [init_hstate |-> h[m], traj_batch |-> t[m],
                         advantages |-> a[m], targets |-> g[m]]]

\* _loss_fn: the network re-run on the minibatch, then the loss terms
LossFn(params, init_hstate, tb, gae_in, targets_in) ==
    LET out == NetworkApply(params, init_hstate[1], tb.obs, tb.done)
    IN  LossTerms(LogProb(out.pi, tb.action), out.value, EntropyOf(out.pi), tb, gae_in, targets_in)

\* train_state.apply_gradients(grads=grads), the gradient standing behind the
\* total loss it is the gradient of: a NaN loss gives NaN parameters
ApplyGradients(ts, total_loss) ==
    [params |-> IF ts.params < 0 \/ IsNaN(total_loss) THEN -1 ELSE ts.params + 1,
     step   |-> ts.step + 1]

(***************************************************************************)
(* The training driver: run_train, _run_update                             *)
(***************************************************************************)
\* the runs explored: <<NUM_MINIBATCHES, NUM_STEPS, SEED>>, NUM_STEPS never
\* below NUM_ENVS
MainRuns == {<<1, 2, 0>>, <<1, 2, 1>>, <<2, 2, 0>>, <<2, 2, 1>>, <<1, 3, 0>>}

MainConfig(run) ==
    [GAMMA |-> Half, GAE_LAMBDA |-> Half, NUM_MINIBATCHES |-> run[1], NUM_STEPS |-> run[2]]

\* the graph state env.reset returns for every environment
ResetGraphState == [e \in Envs |-> 0]

\* the tuple (train_state, env_state, obs, done, hstate, graph_state, key)
RunnerState(ts, es, obs, done_batch, h, g, k) ==
    [train_state |-> ts, env_state |-> es, last_obs |-> obs, last_done |-> done_batch,
     hstate |-> h, env_graph_state |-> g, key |-> k]

\* train(), up to the scan over the update cycles: the key is split into the
\* reset keys and is itself placed in the runner state
Init ==
    /\ pc = "rollout"
    /\ \E run \in MainRuns :
          /\ config = MainConfig(run)
          /\ key = <<run[3]>>
    /\ train_state = [params |-> 0, step |-> 0]
    /\ env_state = [e \in Envs |-> 0]
    /\ last_obs = [e \in Envs |-> 0]
    /\ last_done = [e \in Envs |-> FALSE]
    /\ hstate = [e \in Envs |-> 0]
    /\ env_graph_state = ResetGraphState
    /\ runner_state = RunnerState(train_state, env_state, last_obs, last_done, hstate,
                                  env_graph_state, key)
    /\ key_log = <<[use |-> "reset", key |-> key]>>
    /\ traj_batch = NoTraj
    /\ update_steps = 0
    /\ last_val = <<>>
    /\ advantages = <<>>
    /\ targets = <<>>
    /\ IdleEpoch
    /\ IdleLoss
    /\ IdleCall

\* jnp.full((env.num_agents, NUM_ENVS), done["__all__"]): the episode flag of
\* every environment, for every agent
GlobalDone(all_flags) == [a \in 1..NUM_AGENTS |-> all_flags]

\* the Transition of one step with the observation placed after the step
MakeTransition_PostStepObs(all_flags, done_batch, action_n, value_n, reward, log_prob_n, obs_batch, obs, info) ==
    [global_done |-> GlobalDone(all_flags)[1],
     done        |-> done_batch,
     action      |-> action_n,
     value       |-> value_n,
     reward      |-> reward,
     log_prob    |-> log_prob_n,
     obs         |-> obs,
     info        |-> info]

\* the Transition of one step, for the agent the model follows (the first);
\* obs_batch is the observation acted on, obs the one the step returned
MakeTransition(all_flags, done_batch, action_n, value_n, reward, log_prob_n, obs_batch, obs, info) ==
    [global_done |-> GlobalDone(all_flags)[1],
     done        |-> done_batch,
     action      |-> action_n,
     value       |-> value_n,
     reward      |-> reward,
     log_prob    |-> log_prob_n,
     obs         |-> obs_batch,
     info        |-> info]

\* the runner state of a step that also takes an optimizer step
EpisodeStepCarry_Trains(ts, es, obs, done_batch, h, g, k) ==
    RunnerState(ApplyGradients(ts, Zero), es, obs, done_batch, h, g, k)

\* the runner state that _run_episode_step returns
EpisodeStepCarry(ts, es, obs, done_batch, h, g, k) ==
    RunnerState(ts, es, obs, done_batch, h, g, k)

\* _run_episode_step: act on the last observation, step the environments,
\* record the transition
RunEpisodeStep ==
    /\ pc = "rollout"
    /\ Len(traj_batch.reward) < config.NUM_STEPS
    /\ \E out \in [Envs -> EnvOutcomes] :
          LET obs_batch == last_obs
              a == Act(train_state, hstate, <<<<obs_batch>>, <<last_done>>>>, key)
              key2 == Split(a.key, 2)[1]
              obs == [e \in Envs |-> out[e].obs]
              done_batch == [e \in Envs |-> out[e].done]
              transition ==
                  MakeTransition([e \in Envs |-> out[e].all], done_batch, a.action[1],
                                 a.value[1], [e \in Envs |-> out[e].reward], a.log_prob[1],
                                 obs_batch, obs, [e \in Envs |-> 0])
              carry == EpisodeStepCarry(train_state, obs, obs, done_batch, a.hstate, obs, key2)
          IN  /\ traj_batch' = [f \in DOMAIN traj_batch |-> Append(traj_batch[f], transition[f])]
              /\ train_state' = carry.train_state
              /\ env_state' = carry.env_state
              /\ last_obs' = carry.last_obs
              /\ last_done' = carry.last_done
              /\ hstate' = carry.hstate
              /\ env_graph_state' = carry.env_graph_state
              /\ key' = carry.key
              /\ key_log' = key_log \o <<[use |-> "sample", key |-> Split(key, 2)[2]],
                                         [use |-> "step", key |-> key2]>>
    /\ UNCHANGED <<pc, config, update_steps, last_val, advantages, targets,
                   epoch, permutation, minibatches, mb_idx, loss_info, loss_batch, loss_out,
                   call_args, call_result, callback_log, runner_state>>

\* actor.update, first part: the bootstrap value and the advantages
UpdateGae ==
    /\ pc = "rollout"
    /\ Len(traj_batch.reward) = config.NUM_STEPS
    /\ LET lv == Squeeze(NetworkApply(train_state.params, hstate, <<last_obs>>, <<last_done>>).value)
       IN  /\ last_val' = lv
           /\ advantages' = CalculateGae(traj_batch, lv)[1]
           /\ targets' = CalculateGae(traj_batch, lv)[2]
    /\ epoch' = 0
    /\ pc' = "epoch"
    /\ UNCHANGED <<config, train_state, env_state, last_obs, last_done, hstate, key, traj_batch,
                   update_steps, permutation, minibatches, mb_idx, loss_info, loss_batch, loss_out,
                   call_args, call_result, callback_log,
                   env_graph_state, runner_state, key_log>>

\* _update_epoch, first part: the permutation is drawn and the minibatches formed
UpdateEpochShuffle ==
    /\ pc = "epoch"
    /\ epoch < UPDATE_EPOCHS
    /\ key' = Split(key, 2)[1]
    /\ key_log' = Append(key_log, [use |-> "permutation", key |-> Split(key, 2)[2]])
    /\ \E perm \in JPermutation(NUM_ENVS) :
          /\ permutation' = perm
          /\ minibatches' = Minibatches(hstate, traj_batch, advantages, targets, perm,
                                        config.NUM_MINIBATCHES)
    /\ epoch' = epoch + 1
    /\ mb_idx' = 1
    /\ pc' = "minibatch"
    /\ UNCHANGED <<config, train_state, env_state, last_obs, last_done, hstate, traj_batch,
                   update_steps, last_val, advantages, targets, loss_info, loss_batch, loss_out,
                   call_args, call_result, callback_log, env_graph_state, runner_state>>

\* config["NUM_DEVICES"]: the replicas the environments are sharded over
NUM_DEVICES == 2

\* the rows of axis 0 that belong to replica d when axis 0 is split into
\* NUM_DEVICES equal groups, as the reshape of the step keys splits the
\* environments
ShardRows(x, d) ==
    [i \in 1..(Len(x) \div NUM_DEVICES) |-> x[(d - 1) * (Len(x) \div NUM_DEVICES) + i]]

\* the total loss as the mean over the replicas of the losses each one gets
\* from the environments of its own shard
MinibatchLoss_ReplicaMean(params, mb) ==
    LET shard_loss(d) ==
            LossFn(params, mb.init_hstate,
                   [f \in DOMAIN mb.traj_batch |-> ShardRows(mb.traj_batch[f], d)],
                   ShardRows(mb.advantages, d), ShardRows(mb.targets, d)).total_loss
    IN  RDiv(RSum([d \in 1..NUM_DEVICES |-> shard_loss(d)]), <<NUM_DEVICES, 1>>)

\* total_loss, grads = grad_fn(train_state.params, init_hstate, traj_batch,
\* advantages, targets): one evaluation on the minibatch as it is
MinibatchLoss(params, mb) ==
    LossFn(params, mb.init_hstate, mb.traj_batch, mb.advantages, mb.targets).total_loss

\* _update_minbatch: loss, gradient and optimizer step of the next minibatch
UpdateMinibatch ==
    /\ pc = "minibatch"
    /\ LET total_loss == MinibatchLoss(train_state.params, minibatches[mb_idx])
       IN  /\ train_state' = ApplyGradients(train_state, total_loss)
           /\ loss_info' = Append(loss_info, total_loss)
    /\ mb_idx' = mb_idx + 1
    /\ pc' = IF mb_idx = config.NUM_MINIBATCHES THEN "epoch" ELSE "minibatch"
    /\ UNCHANGED <<config, env_state, last_obs, last_done, hstate, key, traj_batch, update_steps,
                   last_val, advantages, targets, epoch, permutation, minibatches,
                   loss_batch, loss_out,
                   call_args, call_result, callback_log,
                   env_graph_state, runner_state, key_log>>

\* the record wandb.log receives from callback(metric); the returns and win
\* rate are read from the environment's info, which carries no state here
Callback(metric) ==
    [update_steps |-> metric.update_steps,
     env_step |-> metric.update_steps * NUM_ENVS * config.NUM_STEPS]

\* the runner state _run_update returns: the graph state is the one train()
\* got from env.reset, the other components are the current ones
UpdateCarry(ts, es, obs, done_batch, h, k) ==
    RunnerState(ts, es, obs, done_batch, h, ResetGraphState, k)

\* the end of _run_update: the counter is stored into the metrics, the
\* callback runs, and only then the counter is incremented; the returned
\* runner state is the one the next cycle starts from
FinishUpdate ==
    /\ pc = "epoch"
    /\ epoch = UPDATE_EPOCHS
    /\ callback_log' = Append(callback_log, Callback([update_steps |-> update_steps]))
    /\ update_steps' = update_steps + 1
    /\ pc' = IF update_steps + 1 = NUM_UPDATES THEN "done" ELSE "rollout"
    /\ traj_batch' = NoTraj
    /\ last_val' = <<>>
    /\ advantages' = <<>>
    /\ targets' = <<>>
    /\ epoch' = 0
    /\ permutation' = <<>>
    /\ minibatches' = <<>>
    /\ mb_idx' = 0
    /\ loss_info' = <<>>
    /\ LET carry == UpdateCarry(train_state, env_state, last_obs, last_done, hstate, key)
       IN  /\ runner_state' = carry
           /\ train_state' = carry.train_state
           /\ env_state' = carry.env_state
           /\ last_obs' = carry.last_obs
           /\ last_done' = carry.last_done
           /\ hstate' = carry.hstate
           /\ env_graph_state' = carry.env_graph_state
           /\ key' = carry.key
    /\ UNCHANGED <<config, loss_batch, loss_out, call_args, call_result, key_log>>

Next ==
    \/ RunEpisodeStep
    \/ UpdateGae
    \/ UpdateEpochShuffle
    \/ UpdateMinibatch
    \/ FinishUpdate

Spec == Init /\ [][Next]_vars

(***************************************************************************)
(* The evaluation driver: run_eval, _eval_step                             *)
(***************************************************************************)
\* config["NUM_ENVS"] = 1
EVAL_NUM_ENVS == 1

EvalEnvs == 1..EVAL_NUM_ENVS

\* the runs explored: <<NUM_EVAL_STEPS, SEED, optimizer steps of the checkpoint>>
EvalMaxSteps == 3

EvalRuns == (2..EvalMaxSteps) \X {0, 1} \X (0..2)

EvalTransitionFields == TransitionFields \cup {"distribution", "spec_key", "env_state"}

\* the EvalTransition of one step, for the agent the model follows
MakeEvalTransition(all_flags, done_batch, action_n, value_n, reward, log_prob_n, obs_batch, info, pi, spec_key, es) ==
    [global_done  |-> GlobalDone(all_flags)[1],
     done         |-> done_batch,
     action       |-> action_n,
     value        |-> value_n,
     reward       |-> reward,
     log_prob     |-> log_prob_n,
     obs          |-> obs_batch,
     info         |-> info,
     distribution |-> pi,
     spec_key     |-> spec_key,
     env_state    |-> es]

\* eval(), up to the scan: the actor is initialised, the TrainState restored
\* from the checkpoint (kept in call_args for reference), the environment reset
InitEval ==
    /\ pc = "eval"
    /\ \E run \in EvalRuns :
          /\ config = [NUM_EVAL_STEPS |-> run[1], NUM_ENVS |-> EVAL_NUM_ENVS]
          /\ key = <<run[2]>>
          /\ train_state = [params |-> run[3], step |-> run[3]]
          /\ call_args = [params |-> run[3], step |-> run[3]]
    /\ env_state = [e \in EvalEnvs |-> 0]
    /\ last_obs = [e \in EvalEnvs |-> 0]
    /\ last_done = [e \in EvalEnvs |-> FALSE]
    /\ hstate = [e \in EvalEnvs |-> 0]
    /\ traj_batch = [f \in EvalTransitionFields |-> <<>>]
    /\ update_steps = 0
    /\ last_val = <<>>
    /\ advantages = <<>>
    /\ targets = <<>>
    /\ IdleEpoch
    /\ IdleLoss
    /\ call_result = <<>>
    /\ callback_log = <<>>
    /\ env_graph_state = [e \in EvalEnvs |-> 0]
    /\ runner_state = <<>>
    /\ key_log = <<>>

\* _eval_step: act on the last observation, step the environment, record
\* the transition; the TrainState is passed through
EvalStep ==
    /\ pc = "eval"
    /\ Len(traj_batch.reward) < config.NUM_EVAL_STEPS
    /\ \E out \in [EvalEnvs -> EnvOutcomes] :
          LET obs_batch == last_obs
              a == Act(train_state, hstate, <<<<obs_batch>>, <<last_done>>>>, key)
              pi == NetworkApply(train_state.params, hstate, <<obs_batch>>, <<last_done>>).pi
              key2 == Split(a.key, 2)[1]
              obs == [e \in EvalEnvs |-> out[e].obs]
              done_batch == [e \in EvalEnvs |-> out[e].done]
              transition ==
                  MakeEvalTransition([e \in EvalEnvs |-> out[e].all], done_batch, a.action[1],
                                     a.value[1], [e \in EvalEnvs |-> out[e].reward],
                                     a.log_prob[1], obs_batch, [e \in EvalEnvs |-> 0],
                                     pi[1], Split(key, 2)[2], obs)
          IN  /\ traj_batch' = [f \in DOMAIN traj_batch |-> Append(traj_batch[f], transition[f])]
              /\ train_state' = train_state
              /\ env_state' = obs
              /\ last_obs' = obs
              /\ last_done' = done_batch
              /\ hstate' = a.hstate
              /\ env_graph_state' = obs
              /\ key' = key2
    /\ UNCHANGED <<pc, config, update_steps, last_val, advantages, targets,
                   epoch, permutation, minibatches, mb_idx, loss_info, loss_batch, loss_out,
                   call_args, call_result, callback_log, runner_state, key_log>>

\* how eval() ends once the scan and the plot are done: sys.exit() stands
\* before the return statement
EvalEnd == "exited"

\* eval() after the scan: the metrics are built (the callback is not called),
\* the Q-differences plotted, and the function ends
EvalFinish ==
    /\ pc = "eval"
    /\ Len(traj_batch.reward) = config.NUM_EVAL_STEPS
    /\ pc' = EvalEnd
    /\ call_result' = IF EvalEnd = "returned"
                      THEN [runner_state |-> <<train_state, env_state, last_obs, last_done, hstate, key>>,
                            metrics |-> [update_steps |-> 0]]
                      ELSE <<>>
    /\ UNCHANGED <<config, train_state, env_state, last_obs, last_done, hstate, key, traj_batch,
                   update_steps, last_val, advantages, targets,
                   epoch, permutation, minibatches, mb_idx, loss_info, loss_batch, loss_out,
                   call_args, callback_log,
                   env_graph_state, runner_state, key_log>>

NextEval ==
    \/ EvalStep
    \/ EvalFinish

SpecEval == InitEval /\ [][NextEval]_vars

(***************************************************************************)
(* The optimizer's learning rate: linear_schedule and the optimizer steps  *)
(* of the update cycles.  Only the step counter of the TrainState and the  *)
(* learning rates used are followed; call_result is the sequence of the    *)
(* learning rates of all optimizer steps so far.                           *)
(***************************************************************************)
\* config["LR"]
LR == Rat(3, 10)

\* linear_schedule with the decay counted per optimizer step, not per cycle
LinearSchedule_PerStep(cfg, count) ==
    RMul(LR, RSub(One, RDiv(Rat(count, 1),
                            Rat(cfg.NUM_MINIBATCHES * cfg.UPDATE_EPOCHS * cfg.NUM_UPDATES, 1))))

\* linear_schedule(count)
LinearSchedule(cfg, count) ==
    LET frac == RSub(One, RDiv(Rat(count \div (cfg.NUM_MINIBATCHES * cfg.UPDATE_EPOCHS), 1),
                               Rat(cfg.NUM_UPDATES, 1)))
    IN  RMul(LR, frac)

\* the learning rate optax.adam uses at the step with the given counter
LearningRate(cfg, count) == IF cfg.ANNEAL_LR THEN LinearSchedule(cfg, count) ELSE LR

SchedMaxUpdates == 3

SchedConfigs ==
    [NUM_MINIBATCHES : 1..2, UPDATE_EPOCHS : 1..2, NUM_UPDATES : 1..SchedMaxUpdates,
     ANNEAL_LR : BOOLEAN]

InitSched ==
    /\ pc = "epoch"
    /\ config \in SchedConfigs
    /\ IdleRunner
    /\ traj_batch = NoTraj
    /\ last_val = <<>>
    /\ advantages = <<>>
    /\ targets = <<>>
    /\ IdleEpoch
    /\ IdleLoss
    /\ call_args = <<>>
    /\ call_result = <<>>
    /\ callback_log = <<>>

\* _update_epoch, up to the scan over the minibatches
SchedEpoch ==
    /\ pc = "epoch"
    /\ epoch < config.UPDATE_EPOCHS
    /\ epoch' = epoch + 1
    /\ mb_idx' = 1
    /\ pc' = "minibatch"
    /\ UNCHANGED <<config, train_state, env_state, last_obs, last_done, hstate, key, traj_batch,
                   update_steps, last_val, advantages, targets, permutation, minibatches,
                   loss_info, loss_batch, loss_out, call_args, call_result, callback_log,
                   env_graph_state, runner_state, key_log>>

\* _update_minbatch: train_state.apply_gradients, the optimizer taking its
\* learning rate from the counter before the step
SchedMinibatch ==
    /\ pc = "minibatch"
    /\ call_result' = Append(call_result, LearningRate(config, train_state.step))
    /\ train_state' = [train_state EXCEPT !.step = @ + 1]
    /\ mb_idx' = mb_idx + 1
    /\ pc' = IF mb_idx = config.NUM_MINIBATCHES THEN "epoch" ELSE "minibatch"
    /\ UNCHANGED <<config, env_state, last_obs, last_done, hstate, key, traj_batch,
                   update_steps, last_val, advantages, targets, epoch, permutation, minibatches,
                   loss_info, loss_batch, loss_out, call_args, callback_log,
                   env_graph_state, runner_state, key_log>>

\* the end of the scan over the epochs and of the update cycle
SchedFinish ==
    /\ pc = "epoch"
    /\ epoch = config.UPDATE_EPOCHS
    /\ update_steps' = update_steps + 1
    /\ epoch' = 0
    /\ mb_idx' = 0
    /\ pc' = IF update_steps + 1 = config.NUM_UPDATES THEN "done" ELSE "epoch"
    /\ UNCHANGED <<config, train_state, env_state, last_obs, last_done, hstate, key, traj_batch,
                   last_val, advantages, targets, permutation, minibatches,
                   loss_info, loss_batch, loss_out, call_args, call_result, callback_log,
                   env_graph_state, runner_state, key_log>>

NextSched ==
    \/ SchedEpoch
    \/ SchedMinibatch
    \/ SchedFinish

SpecSched == InitSched /\ [][NextSched]_vars

(***************************************************************************)
(* Array shapes of the hidden state.  A shape is the sequence of the       *)
(* lengths of the axes; here hstate holds the shape of the hidden state,   *)
(* not its values.                                                         *)
(***************************************************************************)
RECURSIVE ShapeSize(_)
ShapeSize(shape) == IF shape = <<>> THEN 1 ELSE shape[1] * ShapeSize(Tail(shape))

\* x.squeeze(): every axis of length 1 is removed
ShapeSqueeze(shape) == SelectSeq(shape, LAMBDA d : d # 1)

\* jnp.reshape(x, (1, num_envs, -1)): the last axis takes what is left
ShapeReshape1N(shape, num_envs) == <<1, num_envs, ShapeSize(shape) \div num_envs>>

\* the hidden state in the update_state _update_epoch returns:
\* jnp.reshape(init_hstate, (1, NUM_ENVS, -1)), then init_hstate.squeeze()
EpochHiddenShape(shape, num_envs) ==
    ShapeSqueeze(ShapeReshape1N(shape, num_envs))

\* jax.lax.scan: the carry the body returns must have the type of the carry
\* it received
ScanCarryShape(carry_in, carry_out) ==
    IF carry_out = carry_in THEN [raised |-> "", carry |-> carry_out]
    ELSE [raised |-> "TypeError", carry |-> carry_in]

\* ScannedRNN.initialize_carry(NUM_ENVS, GRU_HIDDEN_DIM)
InitializeCarryShape(num_envs, hidden_dim) == <<num_envs, hidden_dim>>

ShapeMaxEnvs == 4

ShapeMaxDim == 4

ShapeRolloutSteps == 2

ShapeConfigs ==
    [NUM_ENVS : 1..ShapeMaxEnvs, GRU_HIDDEN_DIM : 1..ShapeMaxDim, UPDATE_EPOCHS : 1..2]

InitShape ==
    /\ pc = "rollout"
    /\ config \in ShapeConfigs
    /\ hstate = InitializeCarryShape(config.NUM_ENVS, config.GRU_HIDDEN_DIM)
    /\ train_state = [params |-> 0, step |-> 0]
    /\ env_state = <<>>
    /\ last_obs = <<>>
    /\ last_done = <<>>
    /\ key = <<>>
    /\ update_steps = 0
    /\ env_graph_state = <<>>
    /\ runner_state = <<>>
    /\ key_log = <<>>
    /\ traj_batch = NoTraj
    /\ last_val = <<>>
    /\ advantages = <<>>
    /\ targets = <<>>
    /\ IdleEpoch
    /\ IdleLoss
    /\ IdleCall

\* act: the network returns a hidden state of the shape it received; the
\* number of collected steps is kept in mb_idx
ShapeAct ==
    /\ pc = "rollout"
    /\ mb_idx' = mb_idx + 1
    /\ hstate' = hstate
    /\ pc' = IF mb_idx + 1 = ShapeRolloutSteps THEN "epoch" ELSE "rollout"
    /\ UNCHANGED <<config, train_state, env_state, last_obs, last_done, key, traj_batch,
                   update_steps, last_val, advantages, targets, epoch, permutation, minibatches,
                   loss_info, loss_batch, loss_out, call_args, call_result, callback_log,
                   env_graph_state, runner_state, key_log>>

\* one _update_epoch of the scan over the epochs
ShapeEpoch ==
    /\ pc = "epoch"
    /\ epoch < config.UPDATE_EPOCHS
    /\ LET out == ScanCarryShape(hstate, EpochHiddenShape(hstate, config.NUM_ENVS))
       IN  /\ hstate' = out.carry
           /\ pc' = IF out.raised = "" THEN "epoch" ELSE out.raised
    /\ epoch' = epoch + 1
    /\ UNCHANGED <<config, train_state, env_state, last_obs, last_done, key, traj_batch,
                   update_steps, last_val, advantages, targets, permutation, minibatches, mb_idx,
                   loss_info, loss_batch, loss_out, call_args, call_result, callback_log,
                   env_graph_state, runner_state, key_log>>

\* update returns its runner state, the hidden state of the last epoch in it
ShapeReturn ==
    /\ pc = "epoch"
    /\ epoch = config.UPDATE_EPOCHS
    /\ call_result' = hstate
    /\ pc' = "returned"
    /\ UNCHANGED <<config, train_state, env_state, last_obs, last_done, hstate, key, traj_batch,
                   update_steps, last_val, advantages, targets, epoch, permutation, minibatches,
                   mb_idx, loss_info, loss_batch, loss_out, call_args, callback_log,
                   env_graph_state, runner_state, key_log>>

NextShape ==
    \/ ShapeAct
    \/ ShapeEpoch
    \/ ShapeReturn

SpecShape == InitShape /\ [][NextShape]_vars

(***************************************************************************)
(* Sharding of the environments over the replicas: the reshape of the      *)
(* reset and step keys.  A key is an array of KEY_WORDS words; a word is    *)
(* named by its key and its position in it.                                *)
(***************************************************************************)
\* shape of a jax.random key: (2,)
KEY_WORDS == 2

\* the array jrandom.split(k, n) of shape (n, KEY_WORDS), flattened in row order
SplitWords(k, n) ==
    [p \in 1..(n * KEY_WORDS) |->
        [key |-> Split(k, n)[((p - 1) \div KEY_WORDS) + 1], word |-> ((p - 1) % KEY_WORDS) + 1]]

\* jrandom.split(k, n).reshape(d, n // d, -1): the last axis takes what is
\* left, and the reshape fails when the words do not fill the groups evenly
ShardKeys(k, n, d) ==
    LET flat == SplitWords(k, n)
        g == n \div d
    IN  IF g = 0 \/ Len(flat) % (d * g) # 0 THEN [raised |-> "TypeError", keys |-> <<>>]
        ELSE LET w == Len(flat) \div (d * g)
             IN  [raised |-> "",
                  keys |-> [dev \in 1..d |-> [j \in 1..g |-> [c \in 1..w |->
                               flat[((dev - 1) * g + (j - 1)) * w + c]]]]]

ShardMaxEnvs == 6

ShardMaxDevices == 4

ShardInputs ==
    [k : {<<0>>, <<1>>, <<0, 0>>}, n : 1..ShardMaxEnvs, d : 1..ShardMaxDevices]

InitShard ==
    /\ pc = "call"
    /\ call_args \in ShardInputs
    /\ call_result = <<>>
    /\ callback_log = <<>>
    /\ config = <<>>
    /\ IdleRunner
    /\ traj_batch = NoTraj
    /\ last_val = <<>>
    /\ advantages = <<>>
    /\ targets = <<>>
    /\ IdleEpoch
    /\ IdleLoss

\* the keys of a reset or of a collector step are split and sharded
ShardApply ==
    /\ pc = "call"
    /\ call_result' = ShardKeys(call_args.k, call_args.n, call_args.d)
    /\ pc' = "returned"
    /\ UNCHANGED <<config, train_state, env_state, last_obs, last_done, hstate, key, traj_batch,
                   update_steps, last_val, advantages, targets, epoch, permutation, minibatches,
                   mb_idx, loss_info, loss_batch, loss_out, call_args, callback_log,
                   env_graph_state, runner_state, key_log>>

NextShard == ShardApply

SpecShard == InitShard /\ [][NextShard]_vars

(***************************************************************************)
(* step of src/envs/AYS/AYS_Environment_MultiAgent.py.  The integration of *)
(* the dynamics is left open: a step draws, for every agent, whether the   *)
(* new state lies at a fixed point and the reward the reward function      *)
(* computes there.  env_state holds the fields self.final_state,           *)
(* self.reward and self.t, call_args the constructor's arguments.          *)
(***************************************************************************)
\* a == b for the Python value a and the string b
PyEqStr(v, str) == v.kind = "str" /\ v.val = str

RECURSIVE RPow(_, _)
RPow(x, n) == IF n = 0 THEN One ELSE RMul(x, RPow(x, n - 1))

\* the loop of calculate_expected_final_reward, from i on
RECURSIVE DiscountedSum(_, _, _, _)
DiscountedSum(gamma, reward, i, remaining_steps) ==
    IF i >= remaining_steps THEN Zero
    ELSE RAdd(RMul(RPow(gamma, i), reward), DiscountedSum(gamma, reward, i + 1, remaining_steps))

\* calculate_expected_final_reward(agent)
CalculateExpectedFinalReward(self, agent) ==
    DiscountedSum(self.gamma, self.reward[agent], 0, self.max_steps - self.t)

\* the body of the loop over the agents in step, for one agent, on the
\* fields as the agents before left them
AysStepAgent(self, agent, arrived) ==
    LET s1 == IF arrived[agent]
              THEN [self EXCEPT !.final_state[agent] = TRUE]
              ELSE self
    IN  IF s1.final_state[agent]
           /\ (PyEqStr(s1.reward_type, "PB") \/ PyEqStr(s1.reward_type, "policy_cost"))
        THEN [s1 EXCEPT !.reward[agent] = RAdd(@, CalculateExpectedFinalReward(s1, agent))]
        ELSE s1

RECURSIVE AysStepLoop(_, _, _)
AysStepLoop(self, agent, arrived) ==
    IF agent > NUM_AGENTS THEN self
    ELSE AysStepLoop(AysStepAgent(self, agent, arrived), agent + 1, arrived)

\* step: the time advances, get_reward_function sets the reward of every
\* agent, then the loop over the agents runs
AysStep(self, step_reward, arrived) ==
    AysStepLoop([self EXCEPT !.t = @ + self.dt, !.reward = step_reward], 1, arrived)

AysMaxSteps == 3

AysRewardTypes == {"PB", "policy_cost", "survive"}

AysStepRewards == {Zero, One}

\* __init__ and reset
InitAys ==
    /\ pc = "env"
    /\ \E rt \in AysRewardTypes, ms \in 2..AysMaxSteps :
          /\ call_args = [reward_type |-> [kind |-> "str", val |-> rt], max_steps |-> ms]
          /\ env_state = [reward_type |-> RewardTypeOf("AYS_MultiAgent", call_args.reward_type),
                          gamma |-> Half, max_steps |-> ms, t |-> 0, dt |-> 1,
                          final_state |-> [a \in 1..NUM_AGENTS |-> FALSE],
                          reward |-> [a \in 1..NUM_AGENTS |-> Zero]]
    /\ call_result = <<>>
    /\ callback_log = <<>>
    /\ config = <<>>
    /\ train_state = [params |-> 0, step |-> 0]
    /\ last_obs = <<>>
    /\ last_done = <<>>
    /\ hstate = <<>>
    /\ key = <<>>
    /\ update_steps = 0
    /\ env_graph_state = <<>>
    /\ runner_state = <<>>
    /\ key_log = <<>>
    /\ traj_batch = NoTraj
    /\ last_val = <<>>
    /\ advantages = <<>>
    /\ targets = <<>>
    /\ IdleEpoch
    /\ IdleLoss

\* one call of step; call_result keeps what it returned together with the
\* reward the reward function had computed and the agents that arrived
AysStepCall ==
    /\ pc = "env"
    /\ env_state.t < env_state.max_steps
    /\ \E step_reward \in [1..NUM_AGENTS -> AysStepRewards], arrived \in [1..NUM_AGENTS -> BOOLEAN] :
          /\ env_state' = AysStep(env_state, step_reward, arrived)
          /\ call_result' = [reward |-> env_state'.reward, final_state |-> env_state'.final_state,
                             step_reward |-> step_reward, arrived |-> arrived]
    /\ UNCHANGED <<pc, config, train_state, last_obs, last_done, hstate, key, traj_batch,
                   update_steps, last_val, advantages, targets, epoch, permutation, minibatches,
                   mb_idx, loss_info, loss_batch, loss_out, call_args, callback_log,
                   env_graph_state, runner_state, key_log>>

NextAys == AysStepCall

SpecAys == InitAys /\ [][NextAys]_vars

(***************************************************************************)
(* step_env of envs/AYS_JAX.py.  As above the dynamics are left open: a    *)
(* step draws for every agent whether the new state lies at the green or   *)
(* the brown fixed point, whether it is inside the planetary boundaries    *)
(* and inside the A boundary, and the reward the reward function computes. *)
(***************************************************************************)
\* what a step can bring for one agent; a state outside the A boundary is
\* outside the planetary boundaries
AysJaxOutcomes ==
    {o \in [arrived : {"no", "green", "brown"}, inside_pb : BOOLEAN, inside_a : BOOLEAN,
            reward : {Zero, One}] : o.inside_pb => o.inside_a}

\* self.reward_type[agent] == str, for the 1-based agent
RewardTypeIs(self, agent, str) ==
    LET idx == PyIndex(self.reward_type, agent - 1)
    IN  "item" \in DOMAIN idx /\ idx.item = str

\* the loop over the agents that sets the final-state flags, for one agent
AysJaxFlagAgent(self, agent, out) ==
    LET s1 == IF out[agent].arrived # "no"
              THEN [self EXCEPT !.final_state[agent] = TRUE] ELSE self
        left == IF RewardTypeIs(self, agent, "PB") THEN ~out[agent].inside_pb
                ELSE ~out[agent].inside_a
    IN  IF left THEN [s1 EXCEPT !.final_state[agent] = TRUE] ELSE s1

RECURSIVE AysJaxFlagLoop(_, _, _)
AysJaxFlagLoop(self, agent, out) ==
    IF agent > NUM_AGENTS THEN self
    ELSE AysJaxFlagLoop(AysJaxFlagAgent(self, agent, out), agent + 1, out)

\* the loop over the agents that adds the final rewards, for one agent
AysJaxFinalReward(self, agent, out) ==
    LET bonus == self.trade_actions
                 /\ (RewardTypeIs(self, agent, "PB") \/ RewardTypeIs(self, agent, "IPB"))
                 /\ out[agent].arrived = "green"
        s1 == IF bonus THEN [self EXCEPT !.reward[agent] = RAdd(@, Rat(10, 1))] ELSE self
    IN  [s1 EXCEPT !.reward[agent] = RAdd(@, CalculateExpectedFinalReward(s1, agent))]

RECURSIVE AysJaxRewardLoop(_, _, _)
AysJaxRewardLoop(self, agent, out) ==
    IF agent > NUM_AGENTS THEN self
    ELSE AysJaxRewardLoop(AysJaxFinalReward(self, agent, out), agent + 1, out)

\* the end of step_env with the flags of the agents left as the loop set them
AysJaxFinish_KeepFlags(self, out) ==
    IF \A a \in 1..NUM_AGENTS : self.final_state[a]
    THEN AysJaxRewardLoop(self, 1, out)
    ELSE self

\* the end of step_env: the final rewards when all agents are flagged, all
\* flags cleared otherwise
AysJaxFinish(self, out) ==
    IF \A a \in 1..NUM_AGENTS : self.final_state[a]
    THEN AysJaxRewardLoop(self, 1, out)
    ELSE [self EXCEPT !.final_state = [a \in 1..NUM_AGENTS |-> FALSE]]

\* step_env, when get_reward_function returns
StepEnv(self, out) ==
    LET s1 == [self EXCEPT !.t = @ + self.dt,
                           !.reward = [a \in 1..NUM_AGENTS |-> out[a].reward]]
    IN  AysJaxFinish(AysJaxFlagLoop(s1, 1, out), out)

AysJaxRewardTypes ==
    {[kind |-> "list", val |-> <<"PB", "IPB">>],
     [kind |-> "list", val |-> <<"IPB", "max_Y">>],
     [kind |-> "str", val |-> "PB"]}

\* __init__ and reset
InitAysJax ==
    /\ pc = "env"
    /\ \E rt \in AysJaxRewardTypes, ta \in BOOLEAN :
          /\ call_args = [reward_type |-> rt, trade_actions |-> ta]
          /\ env_state = [reward_type |-> RewardTypeOf("AYS_JAX", rt), trade_actions |-> ta,
                          gamma |-> Half, max_steps |-> AysMaxSteps, t |-> 0, dt |-> 1,
                          final_state |-> [a \in 1..NUM_AGENTS |-> FALSE],
                          reward |-> [a \in 1..NUM_AGENTS |-> Zero]]
    /\ call_result = <<>>
    /\ callback_log = <<>>
    /\ config = <<>>
    /\ train_state = [params |-> 0, step |-> 0]
    /\ last_obs = <<>>
    /\ last_done = <<>>
    /\ hstate = <<>>
    /\ key = <<>>
    /\ update_steps = 0
    /\ env_graph_state = <<>>
    /\ runner_state = <<>>
    /\ key_log = <<>>
    /\ traj_batch = NoTraj
    /\ last_val = <<>>
    /\ advantages = <<>>
    /\ targets = <<>>
    /\ IdleEpoch
    /\ IdleLoss

\* one call of step_env that returns; call_result keeps the returned reward
\* and flags together with the flags before the call and what the step brought
AysJaxStepCall ==
    /\ pc = "env"
    /\ env_state.t < env_state.max_steps
    /\ GetRewardFunction("AYS_JAX", call_args.reward_type).status = "returned"
    /\ \E out \in [1..NUM_AGENTS -> AysJaxOutcomes] :
          /\ env_state' = StepEnv(env_state, out)
          /\ call_result' = [reward |-> env_state'.reward, final_state |-> env_state'.final_state,
                             before |-> env_state.final_state, out |-> out]
    /\ UNCHANGED <<pc, config, train_state, last_obs, last_done, hstate, key, traj_batch,
                   update_steps, last_val, advantages, targets, epoch, permutation, minibatches,
                   mb_idx, loss_info, loss_batch, loss_out, call_args, callback_log,
                   env_graph_state, runner_state, key_log>>

\* one call of step_env in which get_reward_function does not return
AysJaxStepRaise ==
    /\ pc = "env"
    /\ GetRewardFunction("AYS_JAX", call_args.reward_type).status # "returned"
    /\ env_state' = [env_state EXCEPT !.t = @ + env_state.dt]
    /\ pc' = GetRewardFunction("AYS_JAX", call_args.reward_type).status
    /\ UNCHANGED <<config, train_state, last_obs, last_done, hstate, key, traj_batch,
                   update_steps, last_val, advantages, targets, epoch, permutation, minibatches,
                   mb_idx, loss_info, loss_batch, loss_out, call_args, call_result, callback_log,
                   env_graph_state, runner_state, key_log>>

\* reset: the flags are cleared and the time starts again
AysJaxReset ==
    /\ pc = "env"
    /\ env_state.t > 0
    /\ env_state' = [env_state EXCEPT !.t = 0,
                                      !.final_state = [a \in 1..NUM_AGENTS |-> FALSE]]
    /\ call_result' = <<>>
    /\ UNCHANGED <<pc, config, train_state, last_obs, last_done, hstate, key, traj_batch,
                   update_steps, last_val, advantages, targets, epoch, permutation, minibatches,
                   mb_idx, loss_info, loss_batch, loss_out, call_args, callback_log,
                   env_graph_state, runner_state, key_log>>

NextAysJax ==
    \/ AysJaxStepCall
    \/ AysJaxStepRaise
    \/ AysJaxReset

SpecAysJax == InitAysJax /\ [][NextAysJax]_vars

(***************************************************************************)
(* Claims about the advantage estimator (checked under SpecGae)            *)
(***************************************************************************)
GaeLen == Len(traj_batch.reward)

\* value of the state after timestep t: the next transition's value, the bootstrap after the last
GaeNextValue(t, e) == IF t = GaeLen THEN last_val[e] ELSE traj_batch.value[t + 1][e]

\* advantage of the timestep after t, 0 after the last
GaeNextAdvantage(t, e) == IF t = GaeLen THEN Zero ELSE advantages[t + 1][e]

\* reward + gamma * next_value * (1 - done) - value at (t, e), for the given done flag
TdResidual(t, e, done) ==
    RSub(RAdd(traj_batch.reward[t][e],
              RMul(RMul(config.GAMMA, GaeNextValue(t, e)), OneMinus(done))),
         traj_batch.value[t][e])

\* delta + gamma * lambda * (1 - done) * advantage_{t+1} at (t, e), for the given done flag
GaeRecurrence(t, e, done) ==
    RAdd(TdResidual(t, e, done),
         RMul(RMul(RMul(config.GAMMA, config.GAE_LAMBDA), OneMinus(done)), GaeNextAdvantage(t, e)))

\* C1: the estimator's output satisfies, at every timestep, the reverse
\* recursion started from (gae, next_value) = (0, bootstrap):
\* advantage_t = delta_t + gamma*lambda*(1-done_t)*advantage_{t+1} with
\* delta_t = reward_t + gamma*next_value_t*(1-done_t) - value_t, and
\* target_t = advantage_t + value_t (done_t being the flag the estimator reads).
C1_GaeRecursion ==
    pc = "gae_out" =>
        \A t \in 1..GaeLen : \A e \in DOMAIN last_val :
            /\ advantages[t][e] = GaeRecurrence(t, e, traj_batch.global_done[t][e])
            /\ targets[t][e] = RAdd(advantages[t][e], traj_batch.value[t][e])

\* the length-4 rollout with rewards 1 and done only at the last step, values
\* 0, 1, 0, 0 and gamma = lambda = 1/2; the advantages are those of a computation
\* by hand: 1, 1 + 1/4, 1 - 1 + 5/16, 1 + 1/2 + 5/64
C1_Witness ==
    /\ pc = "gae_out"
    /\ traj_batch.reward = [t \in 1..4 |-> <<One>>]
    /\ traj_batch.global_done = [t \in 1..4 |-> <<t = 4>>]
    /\ traj_batch.value = <<<<Zero>>, <<One>>, <<Zero>>, <<Zero>>>>
    /\ config.GAMMA = Half /\ config.GAE_LAMBDA = Half
    /\ advantages = <<<<Rat(101, 64)>>, <<Rat(5, 16)>>, <<Rat(5, 4)>>, <<One>>>>

\* C2 as stated: the (1 - done) factors use the agent's own done flag.
C2_PerAgentDone ==
    pc = "gae_out" =>
        \A t \in 1..GaeLen : \A e \in DOMAIN last_val :
            advantages[t][e] = GaeRecurrence(t, e, traj_batch.done[t][e])

\* C2 amended: the (1 - done) factors use the whole-episode flag global_done:
\* where the agent is done and the episode is not, the bootstrap term and the
\* later advantage are kept; where the episode is done, both are zeroed.
C2_GlobalDoneUsed ==
    pc = "gae_out" =>
        \A t \in 1..GaeLen : \A e \in DOMAIN last_val :
            /\ (traj_batch.done[t][e] /\ ~traj_batch.global_done[t][e]) =>
                   advantages[t][e] = GaeRecurrence(t, e, FALSE)
            /\ traj_batch.global_done[t][e] =>
                   advantages[t][e] = GaeRecurrence(t, e, TRUE)

\* the agent is done at t, the episode is not, and the bootstrap term is not zero
C2_Witness ==
    /\ pc = "gae_out"
    /\ \E t \in 1..GaeLen :
          /\ traj_batch.done[t][1] /\ ~traj_batch.global_done[t][1]
          /\ config.GAMMA # Zero
          /\ GaeNextValue(t, 1) # Zero
          /\ advantages[t][1] # RSub(traj_batch.reward[t][1], traj_batch.value[t][1])

\* the rollout with everything after timestep t replaced by the given cells
ReplaceAfter(tb, t, cells) ==
    [k \in DOMAIN tb |-> [s \in DOMAIN tb[k] |-> IF s <= t THEN tb[k][s] ELSE GaeTraj(cells)[k][s]]]

\* C3: if the flag the estimator reads is true at t, the advantages and
\* targets at every s <= t are the same whatever the rewards, values and done
\* flags after t and whatever the bootstrap value; advantage_t = reward_t - value_t.
C3_NoLeakAcrossDone ==
    pc = "gae_out" =>
        \A t \in 1..GaeLen :
            traj_batch.global_done[t][1] =>
                /\ advantages[t][1] = RSub(traj_batch.reward[t][1], traj_batch.value[t][1])
                /\ \A cells \in [(t + 1)..GaeLen -> GaeCell] : \A lv \in {<<v>> : v \in ValueSet} :
                      LET alt == CalculateGae(ReplaceAfter(traj_batch, t, cells), lv)
                      IN  \A s \in 1..t : /\ alt[1][s] = advantages[s]
                                          /\ alt[2][s] = targets[s]

\* an episode ends inside the rollout, before a step whose advantage is not zero
C3_Witness ==
    /\ pc = "gae_out"
    /\ GaeLen = 2
    /\ traj_batch.global_done[1][1]
    /\ ~traj_batch.global_done[2][1]
    /\ config.GAMMA # Zero /\ config.GAE_LAMBDA # Zero
    /\ advantages[2][1] # Zero
    /\ traj_batch.value[2][1] # Zero
    /\ last_val[1] # Zero

\* C4: with gamma = 0 the advantage is reward - value and the target is the
\* reward, at every timestep, for every done pattern and bootstrap value.
C4_GammaZero ==
    (pc = "gae_out" /\ config.GAMMA = Zero) =>
        \A t \in 1..GaeLen : \A e \in DOMAIN last_val :
            /\ advantages[t][e] = RSub(traj_batch.reward[t][e], traj_batch.value[t][e])
            /\ targets[t][e] = traj_batch.reward[t][e]

\* gamma = 0, lambda # 0, no episode end, and later values that are not zero
C4_Witness ==
    /\ pc = "gae_out"
    /\ config.GAMMA = Zero /\ config.GAE_LAMBDA # Zero
    /\ GaeLen >= 2
    /\ \A t \in 1..GaeLen : ~traj_batch.global_done[t][1]
    /\ last_val[1] # Zero
    /\ \A t \in 2..GaeLen : advantages[t][1] # Zero /\ traj_batch.value[t][1] # Zero

\* C5: with lambda = 0 the advantage is the one-step TD residual
\* reward + gamma*next_value*(1-done) - value at every timestep: the
\* advantage of the later timesteps does not enter.
C5_LambdaZero ==
    (pc = "gae_out" /\ config.GAE_LAMBDA = Zero) =>
        \A t \in 1..GaeLen : \A e \in DOMAIN last_val :
            advantages[t][e] = TdResidual(t, e, traj_batch.global_done[t][e])

\* lambda = 0, gamma # 0, no episode end, and a later advantage that is not zero
C5_Witness ==
    /\ pc = "gae_out"
    /\ config.GAE_LAMBDA = Zero /\ config.GAMMA # Zero
    /\ GaeLen >= 2
    /\ \A t \in 1..GaeLen : ~traj_batch.global_done[t][1]
    /\ \A t \in 2..GaeLen : advantages[t][1] # Zero

(***************************************************************************)
(* Claims about the loss function (checked under SpecLoss)                 *)
(***************************************************************************)
\* the cells of the minibatch with the cell at a done timestep i replaced
DoneCellChanged(i, c) == [loss_batch EXCEPT ![i] = c]

\* C7 as stated: each of the three reductions is unchanged by any change to
\* what a done timestep holds, its advantage included.
C7_DoneContributesNothing ==
    pc = "loss_out" =>
        \A i \in DOMAIN loss_batch :
            loss_batch[i].done =>
                \A c \in {x \in LossCell : x.done} :
                    LET alt == LossOfCells(DoneCellChanged(i, c))
                    IN  /\ alt.value_loss = loss_out.value_loss
                        /\ alt.entropy = loss_out.entropy
                        /\ alt.loss_actor = loss_out.loss_actor

\* C7 amended: the value loss and the entropy term are unchanged by any
\* change to what a done timestep holds, and the policy loss is unchanged by
\* any change to the log-probs, values and target it holds as long as its
\* advantage stays the same (the advantage of a done timestep enters the
\* unmasked mean and standard deviation of the standardization).
C7_MaskedReductions ==
    pc = "loss_out" =>
        \A i \in DOMAIN loss_batch :
            loss_batch[i].done =>
                \A c \in {x \in LossCell : x.done} :
                    LET alt == LossOfCells(DoneCellChanged(i, c))
                    IN  /\ alt.value_loss = loss_out.value_loss
                        /\ alt.entropy = loss_out.entropy
                        /\ c.gae = loss_batch[i].gae => alt.loss_actor = loss_out.loss_actor

\* a minibatch with a done timestep whose raw value loss, policy loss and
\* entropy are not zero, next to a timestep that is not done
C7_Witness ==
    /\ pc = "loss_out"
    /\ Len(loss_batch) = 2
    /\ loss_batch[1].done /\ ~loss_batch[2].done
    /\ loss_batch[1].vals.value # loss_batch[1].vals.target
    /\ loss_batch[1].gae # loss_batch[2].gae
    /\ Entropy(loss_batch[1].probs.log_prob) # Zero
    /\ ~IsNaN(loss_out.total_loss)
    /\ loss_out.loss_actor # Zero
    /\ loss_out.value_loss # Zero

(***************************************************************************)
(* Claims about the update (checked under Spec)                            *)
(***************************************************************************)
\* environments per minibatch, and the environment the permutation puts at
\* place k of minibatch m
MbSize == NUM_ENVS \div config.NUM_MINIBATCHES

MbEnv(m, k) == permutation[(m - 1) * MbSize + k]

\* the recomputed log-probabilities of minibatch mb, as _loss_fn computes them
Recomputed(mb) ==
    LogProb(NetworkApply(train_state.params, mb.init_hstate[1],
                         mb.traj_batch.obs, mb.traj_batch.done).pi,
            mb.traj_batch.action)

\* C6: before any optimizer step the log-probabilities that _loss_fn
\* recomputes with the unmodified parameters equal the recorded ones at every
\* (timestep, environment) of every minibatch, so the ratio is 1 everywhere.
C6_RatioIsOne ==
    (pc = "minibatch" /\ train_state.step = 0) =>
        \A m \in DOMAIN minibatches :
            Recomputed(minibatches[m]) = minibatches[m].traj_batch.log_prob

\* C6 with the rollout taken time-major and whole, as it was collected: the
\* re-run from the hidden state handed to update, on the recorded done flags
C6_RatioIsOneTimeMajor ==
    (pc = "minibatch" /\ train_state.step = 0) =>
        Recomputed([init_hstate |-> <<hstate>>, traj_batch |-> traj_batch])
            = traj_batch.log_prob

\* C8: every minibatch holds, for each of its environments, the whole
\* trajectory of that environment in the order of collection (axis 0 the
\* time axis the network scans), with that environment's advantages, targets
\* and initial hidden state.
C8_EnvAxisOnly ==
    pc = "minibatch" =>
        \A m \in DOMAIN minibatches :
            LET mb == minibatches[m]
            IN  /\ \A f \in TransitionFields :
                      /\ Len(mb.traj_batch[f]) = config.NUM_STEPS
                      /\ \A t \in 1..config.NUM_STEPS : \A k \in 1..MbSize :
                            mb.traj_batch[f][t][k] = traj_batch[f][t][MbEnv(m, k)]
                /\ Len(mb.advantages) = config.NUM_STEPS
                /\ \A t \in 1..config.NUM_STEPS : \A k \in 1..MbSize :
                      /\ mb.advantages[t][k] = advantages[t][MbEnv(m, k)]
                      /\ mb.targets[t][k] = targets[t][MbEnv(m, k)]
                /\ \A k \in 1..MbSize : mb.init_hstate[1][k] = hstate[MbEnv(m, k)]

\* C9: with one minibatch per epoch, the minibatch is the whole rollout and
\* its loss is the loss of the unshuffled pass over the rollout, whatever the
\* permutation.
C9_SingleMinibatchIsWholeBatch ==
    (pc = "minibatch" /\ config.NUM_MINIBATCHES = 1) =>
        /\ Len(minibatches) = 1
        /\ Len(minibatches[1].traj_batch.reward) * Len(minibatches[1].traj_batch.reward[1])
              = config.NUM_STEPS * NUM_ENVS
        /\ LossFn(train_state.params, minibatches[1].init_hstate, minibatches[1].traj_batch,
                  minibatches[1].advantages, minibatches[1].targets)
              = LossFn(train_state.params, <<hstate>>, traj_batch, advantages, targets)

C12_ResetOnDone ==
    pc = "net_out" =>
        \A b \in DOMAIN call_args.hidden :
            call_args.dones[b] =>
                \A h \in HiddenSet :
                    LET alt == ActorCriticRNN(call_args.params,
                                              [call_args.hidden EXCEPT ![b] = h],
                                              <<<<call_args.obs>>, <<call_args.dones>>>>)
                    IN  /\ alt.hidden[b] = call_result.hidden[b]
                        /\ alt.pi[1][b] = call_result.pi[1][b]
                        /\ alt.value[1][b] = call_result.value[1][b]

(***************************************************************************)
(* Claims about the driver (checked under Spec)                            *)
(***************************************************************************)
\* C13: the TrainState is unchanged by every collector step, and it changes
\* only inside update, on a minibatch step taken after the NUM_STEPS collector
\* steps of the cycle.
C13_FrozenDuringRollout ==
    [][/\ pc = "rollout" => train_state' = train_state
       /\ train_state' # train_state =>
             /\ pc = "minibatch"
             /\ Len(traj_batch.reward) = config.NUM_STEPS]_vars

\* a collector step of the second cycle has been taken, with the parameters
\* the first update left
C13_Witness ==
    /\ pc = "rollout"
    /\ update_steps = 1
    /\ Len(traj_batch.reward) = 1
    /\ train_state.step = UPDATE_EPOCHS * config.NUM_MINIBATCHES
    /\ train_state.params > 0

(***************************************************************************)
(* Claims about degenerate minibatches (checked under SpecLoss)            *)
(***************************************************************************)
\* the advantages of the minibatch under study, flattened as _loss_fn sees them
LossGae == [i \in DOMAIN loss_batch |-> loss_batch[i].gae]

\* C14: when all advantages of a minibatch are equal, the divisor
\* std + epsilon is strictly positive, every standardized advantage is 0 and
\* no division by zero reaches the policy loss.
C14_ZeroVariance ==
    (pc = "loss_out" /\ \A i, j \in DOMAIN loss_batch : loss_batch[i].gae = loss_batch[j].gae) =>
        /\ RLess(Zero, RAdd(Std(LossGae), STD_EPS))
        /\ \A i \in DOMAIN loss_batch : Standardize(LossGae)[i] = Zero
        /\ (\E i \in DOMAIN loss_batch : ~loss_batch[i].done) => loss_out.loss_actor = Zero

\* two timesteps with the same non-zero advantage, one of them not done
C14_Witness ==
    /\ pc = "loss_out"
    /\ Len(loss_batch) = 2
    /\ loss_batch[1].gae = Rat(3, 1)
    /\ loss_batch[2].gae = Rat(3, 1)
    /\ ~loss_batch[1].done
    /\ loss_out.loss_actor = Zero
    /\ ~IsNaN(loss_out.total_loss)

\* C15: a minibatch in which every timestep is done gives finite masked means
\* and a finite total loss.
C15_AllDoneAbsorbed ==
    (pc = "loss_out" /\ \A i \in DOMAIN loss_batch : loss_batch[i].done) =>
        /\ ~IsNaN(loss_out.value_loss)
        /\ ~IsNaN(loss_out.loss_actor)
        /\ ~IsNaN(loss_out.entropy)
        /\ ~IsNaN(loss_out.total_loss)

(***************************************************************************)
(* Claims about replicas (checked under Spec)                              *)
(***************************************************************************)
\* the total loss of the minibatch step being taken
AppliedLoss == loss_info'[Len(loss_info')]

MeantSelector(reward_type, agent) ==
    IF reward_type.kind = "str" THEN reward_type.val
    ELSE IF reward_type.kind = "list" /\ agent + 1 \in DOMAIN reward_type.val
         THEN reward_type.val[agent + 1]
    ELSE PyNone

\* C17: a reward is returned only when every agent's selector is a supported
\* one; an unknown or missing selector ends the process; and a supported
\* selector passed as reward_type (such as 'PB') lets the computation complete.
C17_SelectorHandling ==
    pc = "reward_out" =>
        LET env == call_args.env
            rt == call_args.reward_type
            all_supported == \A a \in 0..(NUM_AGENTS - 1) :
                                MeantSelector(rt, a) \in SupportedSelectors[env]
        IN  /\ call_result.status = "returned" => all_supported
            /\ ~all_supported => call_result.status \in {"exit", "raised"}
            /\ (rt.kind = "str" /\ rt.val \in SupportedSelectors[env]) =>
                  call_result.status = "returned"

(***************************************************************************)
(* Claims about the collector (checked under Spec)                         *)
(***************************************************************************)
\* C18: the transition recorded by a collector step holds the observation
\* carried into the step and the value and log-probability computed from it
\* before the environment step, the reward and done flags that the
\* environment step returned, and as episode flag the "__all__" flag of that
\* step, the same for every agent.
C18_TransitionContents ==
    [][Len(traj_batch'.reward) = Len(traj_batch.reward) + 1 =>
          LET t == Len(traj_batch'.reward)
              net == NetworkApply(train_state.params, hstate, <<last_obs>>, <<last_done>>)
          IN  /\ \A f \in TransitionFields : SubSeq(traj_batch'[f], 1, t - 1) = traj_batch[f]
              /\ traj_batch'.obs[t] = last_obs
              /\ traj_batch'.value[t] = net.value[1]
              /\ traj_batch'.log_prob[t] = LogProb(net.pi, <<traj_batch'.action[t]>>)[1]
              /\ \E out \in [Envs -> EnvOutcomes] :
                    /\ last_obs' = [e \in Envs |-> out[e].obs]
                    /\ last_done' = [e \in Envs |-> out[e].done]
                    /\ traj_batch'.reward[t] = [e \in Envs |-> out[e].reward]
                    /\ traj_batch'.done[t] = [e \in Envs |-> out[e].done]
                    /\ \A a \in 1..NUM_AGENTS :
                          GlobalDone([e \in Envs |-> out[e].all])[a] = traj_batch'.global_done[t]]_vars

\* a second transition has been recorded whose observation differs from the
\* one the step returned, in an environment where the agent is done and the
\* episode is not
C18_Witness ==
    /\ pc = "rollout"
    /\ Len(traj_batch.reward) = 2
    /\ traj_batch.obs[2] # last_obs
    /\ traj_batch.obs[2] # traj_batch.obs[1]
    /\ \E e \in Envs : traj_batch.done[2][e] /\ ~traj_batch.global_done[2][e]

(***************************************************************************)
(* Claims about the metrics callback (checked under Spec)                  *)
(***************************************************************************)
\* C19: the callback has run exactly once for every finished update cycle,
\* in cycle order, the counter starting at 0 and growing by one per cycle,
\* and the env_step reported in the k-th cycle is the number of environment
\* steps elapsed by then, k * NUM_ENVS * NUM_STEPS.
C19_EnvStepElapsed ==
    /\ update_steps \in 0..NUM_UPDATES
    /\ Len(callback_log) = update_steps
    /\ \A k \in 1..Len(callback_log) :
          /\ callback_log[k].update_steps = k - 1
          /\ callback_log[k].env_step = k * NUM_ENVS * config.NUM_STEPS

(***************************************************************************)
(* Claims about evaluation (checked under SpecEval)                        *)
(***************************************************************************)
\* C20: evaluation runs the collector for exactly NUM_EVAL_STEPS steps, the
\* TrainState stays the restored one at every step (the optimizer is never
\* invoked), and evaluation then completes by returning the runner state and
\* the metrics: the process is never terminated.
C20_EvalReturns ==
    /\ train_state = call_args
    /\ Len(traj_batch.reward) <= config.NUM_EVAL_STEPS
    /\ pc # "eval" => Len(traj_batch.reward) = config.NUM_EVAL_STEPS
    /\ pc # "exited"
    /\ pc = "returned" => call_result.runner_state[1] = call_args

(***************************************************************************)
(* Claims about the runner state and the update cycle (checked under Spec) *)
(***************************************************************************)
\* the hidden state of environment e that the minibatches of the current
\* epoch start the re-run from
RerunHidden(e) ==
    LET n == config.NUM_MINIBATCHES
        size == NUM_ENVS \div n
        pos == CHOOSE i \in Envs : permutation[i] = e
        m == ((pos - 1) \div size) + 1
    IN  minibatches[m].init_hstate[1][pos - (m - 1) * size]

\* C21: the hidden state from which the optimizer re-runs the network over
\* a rollout is the one the collector held at the first step of that rollout,
\* not the one left after its last step.
C21_RerunFromInitialHidden ==
    pc = "minibatch" => \A e \in Envs : RerunHidden(e) = runner_state.hstate[e]

\* C22: the runner state is threaded through every update cycle: the
\* environment state, graph state, last observation, last done flags and
\* hidden state with which the next cycle starts are the ones the last
\* collector step of this cycle produced, the TrainState and the key are the
\* ones the update returned, and no component is put back to its value from
\* training start.
C22_RunnerStateThreaded ==
    [][update_steps' = update_steps + 1 =>
          /\ runner_state' = RunnerState(train_state, env_state, last_obs, last_done, hstate,
                                         env_graph_state, key)
          /\ runner_state' = RunnerState(train_state', env_state', last_obs', last_done', hstate',
                                         env_graph_state', key')]_vars

(***************************************************************************)
(* Claims about the learning rate (checked under SpecSched)                *)
(***************************************************************************)
\* optimizer steps of one update cycle
StepsPerCycle == config.NUM_MINIBATCHES * config.UPDATE_EPOCHS

\* C23: each update cycle performs exactly UPDATE_EPOCHS * NUM_MINIBATCHES
\* optimizer steps, each advancing the counter by one; with ANNEAL_LR the
\* learning rate of the step with counter c is
\* LR * (1 - floor(c / (NUM_MINIBATCHES * UPDATE_EPOCHS)) / NUM_UPDATES): LR in
\* the first cycle, constant within a cycle, never increasing, positive in
\* every step of the planned cycles and zero at counter
\* NUM_UPDATES * UPDATE_EPOCHS * NUM_MINIBATCHES.
C23_LearningRate ==
    /\ Len(call_result) = train_state.step
    /\ train_state.step = update_steps * StepsPerCycle
                            + (IF epoch = 0 THEN 0
                               ELSE (epoch - 1) * config.NUM_MINIBATCHES + mb_idx - 1)
    /\ (pc = "epoch" /\ epoch = config.UPDATE_EPOCHS) =>
           train_state.step = (update_steps + 1) * StepsPerCycle
    /\ pc = "done" => train_state.step = config.NUM_UPDATES * StepsPerCycle
    /\ config.ANNEAL_LR =>
          /\ \A i \in 1..Len(call_result) :
                LET cycle == (i - 1) \div StepsPerCycle
                IN  /\ call_result[i] = RMul(LR, Rat(config.NUM_UPDATES - cycle, config.NUM_UPDATES))
                    /\ cycle = 0 => call_result[i] = LR
                    /\ RLess(Zero, call_result[i])
                    /\ \A j \in i..Len(call_result) :
                          /\ ~RLess(call_result[i], call_result[j])
                          /\ (j - 1) \div StepsPerCycle = cycle => call_result[j] = call_result[i]
          /\ LinearSchedule(config, config.NUM_UPDATES * StepsPerCycle) = Zero

\* three annealed cycles of four optimizer steps are done, the last at a
\* third of LR
C23_Witness ==
    /\ pc = "done"
    /\ config.ANNEAL_LR
    /\ train_state.step = 12
    /\ call_result[5] = Rat(2, 10)
    /\ call_result[12] = Rat(1, 10)

(***************************************************************************)
(* Claims about the shape of the hidden state (checked under SpecShape)    *)
(***************************************************************************)
\* C24: the hidden state keeps its shape [NUM_ENVS, hidden_dim] through
\* every collector step and every optimizer epoch, and update returns a
\* hidden state of that shape, for every NUM_ENVS >= 1 and hidden_dim >= 1.
C24_HiddenShapeKept ==
    /\ pc # "TypeError"
    /\ hstate = <<config.NUM_ENVS, config.GRU_HIDDEN_DIM>>
    /\ pc = "returned" => call_result = <<config.NUM_ENVS, config.GRU_HIDDEN_DIM>>

(***************************************************************************)
(* Claims about the sharding of the environments (checked under SpecShard) *)
(***************************************************************************)
\* the key of environment e of the split, as the array of its words
OwnKey(e) ==
    [c \in 1..KEY_WORDS |-> [key |-> Split(call_args.k, call_args.n)[e], word |-> c]]

\* C25: the NUM_ENVS environments are split into NUM_DEVICES groups of
\* exactly NUM_ENVS / NUM_DEVICES environments, every environment in exactly
\* one group with its own key of the original key shape; when NUM_ENVS is
\* not a multiple of NUM_DEVICES the split fails.
C25_EqualShards ==
    pc = "returned" =>
        IF call_args.n % call_args.d = 0
        THEN /\ call_result.raised = ""
             /\ Len(call_result.keys) = call_args.d
             /\ \A dev \in 1..call_args.d :
                   Len(call_result.keys[dev]) = call_args.n \div call_args.d
             /\ \A e \in 1..call_args.n :
                   \E dev \in 1..call_args.d : \E j \in 1..(call_args.n \div call_args.d) :
                      /\ call_result.keys[dev][j] = OwnKey(e)
                      /\ \A dev2 \in 1..call_args.d : \A j2 \in 1..(call_args.n \div call_args.d) :
                            call_result.keys[dev2][j2] = OwnKey(e) => dev2 = dev /\ j2 = j
        ELSE call_result.raised = "TypeError"

(***************************************************************************)
(* Claims about the order of an update cycle (checked under Spec)          *)
(***************************************************************************)
\* what the order of the cycle demands of one step: a transition is
\* recorded only while fewer than NUM_STEPS are collected, after the earlier
\* ones and from the observation the step before produced; the bootstrap
\* value is computed once, after the last transition, from the observation
\* and done flags that step left; the optimizer runs after that; the cycle
\* ends after the last epoch
CycleOrderStep ==
    /\ Len(traj_batch'.reward) = Len(traj_batch.reward) + 1 =>
          /\ pc = "rollout" /\ last_val = <<>>
          /\ Len(traj_batch.reward) < config.NUM_STEPS
          /\ \A f \in TransitionFields :
                SubSeq(traj_batch'[f], 1, Len(traj_batch.reward)) = traj_batch[f]
          /\ traj_batch'.obs[Len(traj_batch'.reward)] = last_obs
          /\ last_obs' = env_state'
    /\ (last_val' # last_val /\ last_val' # <<>>) =>
          /\ last_val = <<>>
          /\ Len(traj_batch.reward) = config.NUM_STEPS
          /\ traj_batch' = traj_batch
          /\ last_val' = NetworkApply(train_state.params, hstate, <<last_obs>>, <<last_done>>).value[1]
    /\ train_state' # train_state =>
          /\ last_val # <<>>
          /\ traj_batch' = traj_batch /\ Len(traj_batch.reward) = config.NUM_STEPS
    /\ update_steps' # update_steps =>
          /\ update_steps' = update_steps + 1
          /\ epoch = UPDATE_EPOCHS /\ last_val # <<>>
          /\ train_state.step = update_steps' * UPDATE_EPOCHS * config.NUM_MINIBATCHES
          /\ traj_batch' = NoTraj /\ last_val' = <<>>

\* C26: training runs exactly TOTAL_TIMESTEPS // NUM_STEPS // NUM_ENVS
\* cycles; each cycle collects exactly NUM_STEPS transitions in temporal
\* order, then computes the bootstrap value once from the observation and
\* done flags the last collected step left, then runs the optimizer once.
C26_CycleOrder ==
    /\ [](/\ update_steps <= (TOTAL_TIMESTEPS \div config.NUM_STEPS) \div NUM_ENVS
          /\ pc = "done" <=> update_steps = (TOTAL_TIMESTEPS \div config.NUM_STEPS) \div NUM_ENVS
          /\ Len(traj_batch.reward) <= config.NUM_STEPS)
    /\ [][CycleOrderStep]_vars

\* a training of two cycles of two transitions each has ended
C26_Witness ==
    /\ pc = "done"
    /\ update_steps = 2
    /\ config.NUM_STEPS = 2
    /\ train_state.step = 2 * UPDATE_EPOCHS * config.NUM_MINIBATCHES

(***************************************************************************)
(* Claims about the pseudo-random keys (checked under Spec)                *)
(***************************************************************************)
\* C27: every pseudo-random draw uses a fresh key: a key that was consumed
\* (split into the per-environment reset or step keys, used to sample the
\* actions, or used to draw a permutation) is never the key carried in the
\* runner state, and is never consumed a second time.
C27_FreshKeys ==
    /\ \A i \in DOMAIN key_log : key_log[i].key # key
    /\ \A i, j \in DOMAIN key_log : i # j => key_log[i].key # key_log[j].key

(***************************************************************************)
(* Claims about the reset mask (checked under Spec)                        *)
(***************************************************************************)
\* the done flags the collector fed the network when it acted at timestep
\* t: the ones the step before left, at the first timestep the ones the
\* cycle started with
CollectMask(t, e) == IF t = 1 THEN runner_state.last_done[e] ELSE traj_batch.done[t - 1][e]

\* the done flags _loss_fn feeds the network for timestep t: traj_batch.done
ReevalMask(t, e) == traj_batch.done[t][e]

\* C28: for every timestep of a rollout the reset mask the optimizer feeds
\* the network when re-evaluating the timestep is the reset mask the
\* collector fed the network when it acted at that timestep.
C28_SameResetMask ==
    pc \in {"epoch", "minibatch"} =>
        \A t \in 1..Len(traj_batch.done) : \A e \in Envs : ReevalMask(t, e) = CollectMask(t, e)

(***************************************************************************)
(* Claims about the multi-agent AYS step (checked under SpecAys)           *)
(***************************************************************************)
\* the sum over i in 0..n-1 of gamma^i times r
RECURSIVE GeometricSum(_, _, _)
GeometricSum(gamma, r, n) ==
    IF n <= 0 THEN Zero ELSE RAdd(GeometricSum(gamma, r, n - 1), RMul(RPow(gamma, n - 1), r))

\* C29: when an agent is in a final state after the step and the reward
\* type is 'PB' or 'policy_cost', the reward returned for it is its step
\* reward plus the sum over i in 0..(max_steps - t - 1) of gamma^i times the
\* step reward; for an agent not in a final state the step reward is
\* returned unchanged.
C29_ExpectedFinalReward ==
    call_result # <<>> =>
        \A a \in 1..NUM_AGENTS :
            IF call_result.final_state[a]
            THEN call_args.reward_type.val \in {"PB", "policy_cost"} =>
                    call_result.reward[a] =
                        RAdd(call_result.step_reward[a],
                             GeometricSum(env_state.gamma, call_result.step_reward[a],
                                          env_state.max_steps - env_state.t))
            ELSE call_result.reward[a] = call_result.step_reward[a]

(***************************************************************************)
(* Claims about step_env of the JAX port (checked under SpecAysJax)        *)
(***************************************************************************)
\* the agent reached a fixed point or left its boundary in the step that
\* call_result describes
FlaggedInStep(a) ==
    \/ call_result.out[a].arrived # "no"
    \/ IF RewardTypeIs(env_state, a, "PB") THEN ~call_result.out[a].inside_pb
       ELSE ~call_result.out[a].inside_a

AllFlags(flags, b) == \A a \in 1..NUM_AGENTS : flags[a] = b

\* the flags are uniform, a single agent's flag does not persist, and the
\* reward is the one of the reward function unless all flags are set
UniformFlags ==
    /\ AllFlags(env_state.final_state, TRUE) \/ AllFlags(env_state.final_state, FALSE)
    /\ call_result # <<>> =>
          /\ call_result.final_state = env_state.final_state
          /\ AllFlags(call_result.final_state, TRUE) \/ AllFlags(call_result.final_state, FALSE)
          /\ AllFlags(call_result.final_state, FALSE) =>
                \A a \in 1..NUM_AGENTS : call_result.reward[a] = call_result.out[a].reward

\* C30 as stated: the final-state flags step_env returns are uniform across
\* the agents; they are all True only when every agent reached a fixed
\* point or left its boundary in that same step; a flag set for a single
\* agent never persists; the expected final reward is added only when all
\* flags are True.
C30_UniformFinalFlags ==
    /\ UniformFlags
    /\ (call_result # <<>> /\ AllFlags(call_result.final_state, TRUE)) =>
          \A a \in 1..NUM_AGENTS : FlaggedInStep(a)

\* C30, amended: as above, but the flags are all True also when they were
\* already all True before the step, since only reset clears them then.
C30_UniformOrKept ==
    /\ UniformFlags
    /\ (call_result # <<>> /\ AllFlags(call_result.final_state, TRUE)) =>
          \/ \A a \in 1..NUM_AGENTS : FlaggedInStep(a)
          \/ AllFlags(call_result.before, TRUE)
    /\ (call_result # <<>> /\ AllFlags(call_result.final_state, FALSE)) =>
          /\ AllFlags(call_result.before, FALSE)
          /\ \E a \in 1..NUM_AGENTS : ~FlaggedInStep(a)

\* after a step in which only the first agent was flagged, and which
\* returned no flag, a step flags both agents and returns both flags with
\* the final rewards added
C30_Witness ==
    /\ call_result # <<>>
    /\ env_state.t = 2
    /\ AllFlags(call_result.before, FALSE)
    /\ AllFlags(call_result.final_state, TRUE)
    /\ call_result.out[1].arrived = "no" /\ ~call_result.out[1].inside_a
    /\ call_result.out[2].arrived = "green"
    /\ call_result.reward[2] # call_result.out[2].reward

====
